---- MODULE Spec2Model ----
(***************************************************************************)
(* Model of the notebooks of med-extreme-prec-atm-patterns:                *)
(*   Paper1/Scripts/Script1 Data Download.ipynb   (ERA5 download)          *)
(*   Paper2/Scripts/Script1_DownloadData.ipynb    (reforecasts + ERA5)     *)
(*   the additional-analysis notebook             (EOF, EOBS overlap, EPE) *)
(* Strings are sequences of one-character strings, so that slicing,        *)
(* concatenation, formatting and parsing are modelled by what they do.     *)
(***************************************************************************)
EXTENDS Integers, Sequences, FiniteSets, TLC

VARIABLES
    script,               \* which notebook is being run
    pc,                   \* position of the main process in the notebook
    initialization_dates, \* initialization dates of the reforecasts (Paper2)
    dates_generated_all,  \* list of 'YYYYMMDD' strings
    dates_atm_vars,       \* year-month chunks of dates_generated_all
    dates_precipit,       \* chunks with the previous chunk's last date prepended
    var_i,                \* index of the variable loop (1-based)
    tasks,                \* tasks handed to the open pool by imap, in order
    results,              \* the list that list(imap(...)) has built so far
    AtmVar,               \* dictionary key -> Fieldset
    Precip,               \* the concatenated precipitation Fieldset
    files,                \* file system: path -> content
    log,                  \* history: calls made, retrievals, writes
    env,                  \* names of the analysis notebook -> their values
    call,                 \* arguments of the function call under study
    ret                   \* what that call returned or raised

vars == <<script, pc, initialization_dates, dates_generated_all, dates_atm_vars,
          dates_precipit, var_i, tasks, results, AtmVar, Precip, files, log,
          env, call, ret>>

dateVars == <<initialization_dates, dates_generated_all, dates_atm_vars, dates_precipit>>

anVars == <<env, call, ret>>

---------------------------------------------------------------------------
(* Bounds of the model *)

\* longest date range drawn as dates_generated_all (in days)
MaxSpan == 30

\* number of worker processes of a multiprocessing.Pool()
NProcs == 2

\* number of retrievals that may fail in one run
MaxFailures == 1

\* days of the range of the reforecast initialization dates, from its start on
InitSpan == 7

\* longest time axis of a precipitation dataset drawn (in days)
MaxDays == 3

\* longest sequence of states drawn for transition_matrix
MaxLen == 4

\* largest lead drawn for transition_matrix
MaxLead == 2

\* the largest number of EOFs of a drawn spectrum
MaxEofs == 4

\* the most dates of a list given to days_extend, and the largest offset
MaxDates == 2

MaxOffset == 2

---------------------------------------------------------------------------
(* Python strings and lists *)

Range(s) == {s[i] : i \in DOMAIN s}

Digits == <<"0", "1", "2", "3", "4", "5", "6", "7", "8", "9">>

DigitVal(c) == (CHOOSE n \in 1..10 : Digits[n] = c) - 1

\* '%04d' / '%02d': the last w decimal digits of n, zero padded
RECURSIVE ZeroPad(_, _)
ZeroPad(n, w) ==
    IF w = 0 THEN <<>> ELSE Append(ZeroPad(n \div 10, w - 1), Digits[(n % 10) + 1])

\* str(n) of a non-negative integer: no padding
RECURSIVE str(_)
str(n) ==
    IF n < 10 THEN <<Digits[n + 1]>> ELSE Append(str(n \div 10), Digits[(n % 10) + 1])

\* int(s) of a string of decimal digits
RECURSIVE int(_)
int(s) ==
    IF s = <<>> THEN 0
    ELSE 10 * int(SubSeq(s, 1, Len(s) - 1)) + DigitVal(s[Len(s)])

\* python slice s[a:b] with 0 <= a, b (0-based, end exclusive, clipped to the length)
Slice(s, a, b) ==
    LET hi == IF b > Len(s) THEN Len(s) ELSE b
    IN  IF a >= hi THEN <<>> ELSE SubSeq(s, a + 1, hi)

RECURSIVE Concat(_)
Concat(ss) == IF ss = <<>> THEN <<>> ELSE Head(ss) \o Concat(Tail(ss))

---------------------------------------------------------------------------
(* pandas.date_range(start, end).strftime('%Y%m%d').to_list() *)

IsLeap(y) == (y % 4 = 0 /\ y % 100 # 0) \/ y % 400 = 0

DaysInMonth(y, m) ==
    IF m = 2 THEN (IF IsLeap(y) THEN 29 ELSE 28)
    ELSE IF m \in {4, 6, 9, 11} THEN 30 ELSE 31

NextDay(t) ==
    IF t.d < DaysInMonth(t.y, t.m) THEN [t EXCEPT !.d = t.d + 1]
    ELSE IF t.m < 12 THEN [y |-> t.y, m |-> t.m + 1, d |-> 1]
    ELSE [y |-> t.y + 1, m |-> 1, d |-> 1]

\* the n consecutive days from t on
RECURSIVE date_range(_, _)
date_range(t, n) == IF n = 0 THEN <<>> ELSE <<t>> \o date_range(NextDay(t), n - 1)

strftime(t) == ZeroPad(t.y, 4) \o ZeroPad(t.m, 2) \o ZeroPad(t.d, 2)

\* datetime.toordinal(): 0001-01-01 is day 1 of the proleptic Gregorian calendar
DaysBeforeYear(y) ==
    LET p == y - 1 IN p * 365 + (p \div 4) - (p \div 100) + (p \div 400)

RECURSIVE DaysBeforeMonth(_, _)
DaysBeforeMonth(y, m) ==
    IF m = 1 THEN 0 ELSE DaysBeforeMonth(y, m - 1) + DaysInMonth(y, m - 1)

toordinal(t) == DaysBeforeYear(t.y) + DaysBeforeMonth(t.y, t.m) + t.d

\* DatetimeIndex.weekday: Monday is 0, Sunday is 6
weekday(t) == (toordinal(t) + 6) % 7

DateList(t, n) == LET r == date_range(t, n) IN [i \in 1..n |-> strftime(r[i])]

---------------------------------------------------------------------------
(* Chunking of the dates (Paper1 cell 6, Paper2 cells 11 and 16) *)

\* variant of the key: the year alone, x[:4]
YearOnly(x) == Slice(x, 0, 4)

\* the groupby key  lambda x: x[:6]
YearMonth(x) == Slice(x, 0, 6)

\* length of the run of elements at the head of xs that share the head's key
RECURSIVE RunLength(_)
RunLength(xs) ==
    IF Len(xs) <= 1 THEN Len(xs)
    ELSE IF YearMonth(xs[2]) = YearMonth(xs[1]) THEN 1 + RunLength(Tail(xs))
    ELSE 1

\* [list(v) for l, v in groupby(xs, lambda x: x[:6])]: itertools.groupby starts
\* a new group every time the key changes
RECURSIVE groupby(_)
groupby(xs) ==
    IF xs = <<>> THEN <<>>
    ELSE LET n == RunLength(xs)
         IN  <<SubSeq(xs, 1, n)>> \o groupby(SubSeq(xs, n + 1, Len(xs)))

\* variant: the chunks as they are, no date repeated
ChunksAsTheyAre(chunks) == chunks

\* dates_atm_vars[i][-1:] + dates_atm_vars[i+1] for every i, then the first chunk
\* inserted at position 0
MakeDatesPrecipit(chunks) ==
    <<chunks[1]>> \o
    [i \in 1..(Len(chunks) - 1) |->
        Slice(chunks[i], Len(chunks[i]) - 1, Len(chunks[i])) \o chunks[i + 1]]

---------------------------------------------------------------------------
(* MARS retrievals and metview Fieldsets.  A field is a record of its GRIB   *)
(* keys; the GRIB key 'date' is the integer YYYYMMDD.  A retrieval returns  *)
(* the fields in the order of the request: date, then time, then step.      *)

\* time = list(range(0,24))
HoursPerDay == 24

\* time = [6, 18] of the precipitation forecasts
ForecastTimes == <<6, 18>>

\* step = list(range(7,19))
FirstStep == 7
LastStep == 18
NSteps == LastStep - FirstStep + 1

\* mv.retrieve(type='an', param=atm_var, date=dates_subset, time=0..23)
retrieve_an(atm_var, dates_subset) ==
    Concat([i \in 1..Len(dates_subset) |->
              [h \in 1..HoursPerDay |->
                 [param |-> atm_var, date |-> int(dates_subset[i]), time |-> h - 1]]])

\* mv.retrieve(type='fc', param='tp', date=dates_subset, time=[6,18], step=7..18,
\*             area=area)
retrieve_fc(dates_subset, area) ==
    Concat([i \in 1..Len(dates_subset) |->
              Concat([t \in 1..Len(ForecastTimes) |->
                        [k \in 1..NSteps |->
                           [param |-> "tp", date |-> int(dates_subset[i]),
                            time |-> ForecastTimes[t], step |-> FirstStep + k - 1,
                            area |-> area]]])])

\* mv.grib_get(fc_all, ['date']): the key as a string
grib_get_date(fc_all) == <<>> \o [k \in DOMAIN fc_all |-> str(fc_all[k].date)]

\* mv.mean / mv.sum of a Fieldset: one field carrying the GRIB keys of the first
\* field (no field at all gives the keys' defaults)
mv_mean(fs) ==
    [op |-> "mean", date |-> IF fs = <<>> THEN 0 ELSE fs[1].date, of |-> fs]

mv_sum(fs) ==
    [op |-> "sum", date |-> IF fs = <<>> THEN 0 ELSE fs[1].date, of |-> fs,
     factor |-> 1, area |-> IF fs = <<>> THEN "" ELSE fs[1].area]

\* variant: only the first field of the day of interest, fc_all[np.where(...)[0][0]]
FirstFieldOfDay(fc_all, fields, day_i) ==
    LET used_indices == {k \in DOMAIN fc_all : fields[k] = day_i}
    IN  IF used_indices = {} THEN <<>>
        ELSE <<fc_all[CHOOSE k \in used_indices : \A j \in used_indices : k <= j]>>

\* the fields of the day of interest:  fc_all[np.where(np.array(fields) == day_i)[0]]
FieldsOfDay(fc_all, fields, day_i) ==
    LET used_indices == {k \in DOMAIN fc_all : fields[k] = day_i}
        Keep(k) == k \in used_indices
        idx == SelectSeq([k \in DOMAIN fc_all |-> k], Keep)
    IN  [j \in DOMAIN idx |-> fc_all[idx[j]]]

\* atm_subset (Paper1) and download_ERA5_fullhourly (Paper2): the same body
atm_subset(input_data) ==
    LET atm_var == input_data[3]
        dates_subset == input_data[4]
        fc_all == retrieve_an(atm_var, dates_subset)
        fields == grib_get_date(fc_all)
    IN  [d \in 1..Len(dates_subset) |->
           mv_mean(FieldsOfDay(fc_all, fields, dates_subset[d]))]

\* variant: the slice starts at the 06:00 forecast of the day itself
StartAtDay(i_day) == 24 * i_day

\* start_indice and end_indice of the slice summed for i_day (0-based)
start_indice(i_day) == 12 + 24 * i_day
end_indice(i_day) == 12 + 24 * (i_day + 1)

\* the body shared by precip_subset (Paper1) and the second download_precip (Paper2)
DailyTotals(dates_subset, area) ==
    LET fc_all == retrieve_fc(dates_subset, area)
    IN  [n \in 1..(Len(dates_subset) - 1) |->
           LET i_day == n - 1
               sub == mv_sum(Slice(fc_all, start_indice(i_day), end_indice(i_day)))
           IN  [sub EXCEPT !.date = int(dates_subset[i_day + 1 + 1])]]

\* Paper1: area = Area_precipt_ext
precip_subset(dates_subset) == DailyTotals(dates_subset, "Area_precipt_ext")

\* Paper2, cell 17: area = area_precipt
download_precip_ERA5(dates_subset) == DailyTotals(dates_subset, "area_precipt")

\* Paper2, download_ERA5_0UTC: the 00 UTC analysis of every date, as retrieved
download_ERA5_0UTC(input_data) ==
    [i \in 1..Len(input_data[4]) |->
       [param |-> input_data[3], date |-> int(input_data[4][i]), time |-> 0]]

---------------------------------------------------------------------------
(* Process pools.  pool.imap(fn, inputs) queues one task per input; idle     *)
(* worker processes take the queued tasks in order; list(...) in the main    *)
(* process consumes the results in the order of the inputs and re-raises the *)
(* exception of a task that failed.                                          *)

\* variant: the last input is not handed to the pool
imap_but_last(fn, inputs) ==
    [i \in 1..(Len(inputs) - 1) |->
       [fn |-> fn, input |-> inputs[i], status |-> "queued", runs |-> 0,
        result |-> <<>>]]

imap(fn, inputs) ==
    [i \in 1..Len(inputs) |->
       [fn |-> fn, input |-> inputs[i], status |-> "queued", runs |-> 0,
        result |-> <<>>]]

Running == {i \in DOMAIN tasks : tasks[i].status = "running"}

Queued == {i \in DOMAIN tasks : tasks[i].status = "queued"}

\* variant: every task has been taken by a worker
AllTaken == Queued = {}

\* list(tqdm.tqdm(pool.imap(...))) has consumed every result
AllConsumed == Len(results) = Len(tasks)

\* mv.write(path, content): the file is created or replaced; also dict[key] = value
WriteFile(fs, path, content) ==
    [q \in DOMAIN fs \cup {path} |-> IF q = path THEN content ELSE fs[q]]

\* history: one more write of / retrieval for path
CountOne(w, path) ==
    [q \in DOMAIN w \cup {path} |->
       IF q = path THEN (IF path \in DOMAIN w THEN w[path] + 1 ELSE 1) ELSE w[q]]

EmptyLog == [calls |-> {}, writes |-> <<>>, retrievals |-> <<>>, failures |-> 0]

---------------------------------------------------------------------------
(* Paper1/Scripts/Script1 Data Download.ipynb: inputs and names *)

\* the first dates of the ranges drawn for dates_generated_all
StartDates ==
    {[y |-> 1979, m |-> 1, d |-> 1], [y |-> 1979, m |-> 1, d |-> 30],
     [y |-> 1979, m |-> 1, d |-> 31], [y |-> 1979, m |-> 12, d |-> 31],
     [y |-> 1980, m |-> 2, d |-> 28]}

\* the lengths of the ranges drawn for dates_generated_all
Spans == {2, 3, MaxSpan}

dir_loc == <<"D", "a", "t", "a", "/">>

grb == <<".", "g", "r", "b">>

D1_Mean == <<"D", "1", "_", "M", "e", "a", "n", "_">>

data_inputs ==
    << <<0, "sfc", "151.128", D1_Mean \o <<"S", "L", "P">> >>,
       <<500, "pl", "129.128", D1_Mean \o <<"Z", "5", "0", "0">> >>,
       <<850, "pl", "130.128", D1_Mean \o <<"T", "8", "5", "0">> >>,
       <<850, "pl", "q", D1_Mean \o <<"Q", "8", "5", "0">> >>,
       <<0, "sfc", "71.162", D1_Mean \o <<"W", "V", "F", "e", "a", "s", "t">> >>,
       <<0, "sfc", "72.162", D1_Mean \o <<"W", "V", "F", "n", "o", "r", "t", "h">> >> >>

D1_Total_Precipitation ==
    <<"D", "1", "_", "T", "o", "t", "a", "l", "_", "P", "r", "e", "c", "i", "p",
      "i", "t", "a", "t", "i", "o", "n">>

\* s.split('_')[-1]: what follows the last '_' of s
RECURSIVE LastPart(_)
LastPart(s) ==
    IF s = <<>> \/ s[Len(s)] = "_" THEN <<>>
    ELSE LastPart(SubSeq(s, 1, Len(s) - 1)) \o <<s[Len(s)]>>

\* variant: one path for all the variables
OnePath(var) == dir_loc \o D1_Mean \o grb

\* the path written for an atmospheric variable: dir_loc + file_name + '.grb'
AtmPath(var) == dir_loc \o var[4] \o grb

PrecipPath == dir_loc \o D1_Total_Precipitation \o grb

\* Inputs = list(zip([levelist]*Times, [levtype]*Times, [atm_var]*Times, dates_atm_vars))
Inputs(var, chunks) ==
    [i \in 1..Len(chunks) |-> <<var[1], var[2], var[3], chunks[i]>>]

\* Precip*1000 and mv.read(data=Precip, area=area_precipt)
ToMmAndCrop(fs) ==
    [k \in DOMAIN fs |-> [fs[k] EXCEPT !.factor = 1000, !.area = "area_precipt"]]

---------------------------------------------------------------------------
(* Paper2/Scripts/Script1_DownloadData.ipynb: inputs and names *)

main_out_folder == <<"/", "D", "a", "t", "a", "/">>

ERA5_loc == main_out_folder \o <<"E", "R", "A", "5", "/">>

SLP == <<"S", "L", "P">>
Z500 == <<"Z", "5", "0", "0">>
cf == <<"c", "f">>
pf == <<"p", "f">>
Precipitation == <<"P", "r", "e", "c", "i", "p", "i", "t", "a", "t", "i", "o", "n">>

\* the dictionary Reforecasts_vars_used, as its items in insertion order
Reforecasts_vars_used ==
    << <<SLP, <<0, "sfc", "151.128">> >>, <<Z500, <<500, "pl", "129.128">> >> >>

\* Reforecasts_vars_used[param]
VarsUsed(param) ==
    LET k == CHOOSE j \in DOMAIN Reforecasts_vars_used : Reforecasts_vars_used[j][1] = param
    IN  Reforecasts_vars_used[k][2]

ERA5_vars_used ==
    << <<0, "sfc", "151.128", D1_Mean \o SLP>>,
       <<500, "pl", "129.128", D1_Mean \o Z500>> >>

\* start_date = '20190611'
start_date == [y |-> 2019, m |-> 6, d |-> 11]

\* initialization_dates: the Mondays (0) and Thursdays (3) of the range, as strings
KeptDates(range) ==
    LET Kept(t) == weekday(t) = 0 \/ weekday(t) = 3
        kept == SelectSeq(range, Kept)
    IN  [i \in DOMAIN kept |-> strftime(kept[i])]

\* list(product(a, b)) and list(product(a, b, c)): the last list varies fastest
product2(a, b) ==
    [n \in 1..(Len(a) * Len(b)) |->
       <<a[((n - 1) \div Len(b)) + 1], b[((n - 1) % Len(b)) + 1]>>]

product3(a, b, c) ==
    [n \in 1..(Len(a) * Len(b) * Len(c)) |->
       <<a[((n - 1) \div (Len(b) * Len(c))) + 1],
         b[(((n - 1) \div Len(c)) % Len(b)) + 1],
         c[((n - 1) % Len(c)) + 1]>>]

\* hdates_used = ['{}{}'.format(x, init_date[-4:]) for x in range(init_year-20, init_year)]
hdates_used(init_date) ==
    LET init_year == int(Slice(init_date, 0, 4))
    IN  [x \in 1..20 |->
           str(init_year - 20 + x - 1) \o Slice(init_date, Len(init_date) - 4, Len(init_date))]

\* variant: the file name without the initialization date
DataFileOfType(input_data) ==
    LET param == input_data[1]
        type_used == input_data[2]
    IN  main_out_folder \o param \o <<"/">> \o type_used \o <<"/">>
           \o param \o <<"_">> \o type_used \o grb

\* download_data: file_name
DataFile(input_data) ==
    LET param == input_data[1]
        type_used == input_data[2]
        init_date == input_data[3]
        files_loc == main_out_folder \o param \o <<"/">> \o type_used \o <<"/">>
    IN  files_loc \o param \o <<"_">> \o type_used \o <<"_">> \o init_date \o grb

\* download_precip (cell 9): file_name
PrecipFile(input_data) ==
    LET type_used == input_data[1]
        init_date == input_data[2]
        files_loc == main_out_folder \o Precipitation \o <<"/">> \o type_used \o <<"/">>
    IN  files_loc \o Precipitation \o <<"_">> \o type_used \o <<"_">> \o init_date \o grb

\* download_data: what mv.retrieve returns and mv.write saves
download_data(input_data) ==
    LET param == input_data[1]
        type_used == input_data[2]
        init_date == input_data[3]
    IN  [Class |-> "od", stream |-> "enfh", date |-> init_date,
         hdate |-> hdates_used(init_date),
         levelist |-> VarsUsed(param)[1], levtype |-> VarsUsed(param)[2],
         param |-> VarsUsed(param)[3], type |-> type_used,
         number |-> IF type_used = pf THEN 10 ELSE 0, factor |-> 1]

\* download_precip (cell 9): fc_all*1000 is saved
download_precip(input_data) ==
    LET type_used == input_data[1]
        init_date == input_data[2]
    IN  [Class |-> "od", stream |-> "enfh", date |-> init_date,
         hdate |-> hdates_used(init_date),
         levelist |-> 0, levtype |-> "sfc",
         param |-> "228.128", type |-> type_used,
         number |-> IF type_used = pf THEN 10 ELSE 0, factor |-> 1000]

\* the functions whose tasks check for and write a file of their own
DownloadFns == {"download_data", "download_precip"}

\* the file of a task of download_data / download_precip
TaskFile(t) ==
    IF t.fn = "download_data" THEN DataFile(t.input) ELSE PrecipFile(t.input)

\* the paths of the ERA5 outputs
UtcPath(var) == ERA5_loc \o var[4] \o <<"_", "0", "0", "U", "T", "C">> \o grb
HourlyPath(var) == ERA5_loc \o var[4] \o grb
ERA5PrecipPath == ERA5_loc \o D1_Total_Precipitation \o grb

\* the ranges drawn for dates_generated_all in the Paper2 run
P2Ranges == {DateList([y |-> 1979, m |-> 1, d |-> 31], n) : n \in {2, 3}}

\* every path a reforecast task may write for the initialization dates drawn
ReforecastFiles(init_dates) ==
    {DataFile(c) : c \in Range(product3(<<SLP, Z500>>, <<cf, pf>>, init_dates))}
    \cup {PrecipFile(c) : c \in Range(product2(<<cf, pf>>, init_dates))}

\* a file left by an earlier run
OldFile == [Class |-> "od", stream |-> "enfh", date |-> <<>>, hdate |-> <<>>,
            levelist |-> 0, levtype |-> "", param |-> "", type |-> <<>>,
            number |-> 0, factor |-> 0]

---------------------------------------------------------------------------
(* The additional-analysis notebook: values and functions                    *)
(* A float is a number or a NaN.  Precipitation is kept in whole units and   *)
(* a quantile in hundredths of a unit, so that the linear interpolation of   *)
(* the quantile is exact.  A NaN carries the identity of its Python object,  *)
(* which is what set() and dict keys go by (nan != nan).                     *)

Num(x) == [nan |-> FALSE, v |-> x]

NaN(k) == [nan |-> TRUE, v |-> k]

\* P_used = [95, 97, 99]
P_used_given == <<95, 97, 99>>

\* P_used = sorted(list(np.array(P_used).flatten()))[::-1]
P_used == SortSeq(P_used_given, LAMBDA a, b : a > b)

\* the values of a cell over time: dataset.values[:, cell]
CellSeries(dataset, cell) == [d \in DOMAIN dataset.values |-> dataset.values[d][cell]]

\* the sorted values that are not NaN (np.nanquantile skips the NaN)
SortedValid(xs) ==
    LET valid == SelectSeq(xs, LAMBDA x : ~x.nan)
    IN  SortSeq([k \in DOMAIN valid |-> valid[k].v], LAMBDA a, b : a < b)

\* quantile(q/100, interpolation='linear') of a series, in hundredths: NaN when no
\* value is left, else v[lo] + frac * (v[lo+1] - v[lo]) at position (n-1)*q/100
quantile(xs, q) ==
    LET v == SortedValid(xs)
        n == Len(v)
        lo == ((n - 1) * q) \div 100
        frac == ((n - 1) * q) % 100
    IN  IF n = 0 THEN NaN(0)
        ELSE IF frac = 0 THEN Num(100 * v[lo + 1])
        ELSE Num(100 * v[lo + 1] + frac * (v[lo + 2] - v[lo + 1]))

\* variant: a value equal to the threshold counts as well
AtLeast(x, thres) == ~x.nan /\ ~thres.nan /\ 100 * x.v >= thres.v

\* x > thres of numpy: False when either side is NaN (thres in hundredths)
Exceeds(x, thres) == ~x.nan /\ ~thres.nan /\ 100 * x.v > thres.v

\* dates_extreme(dataset, quantile): for every cell the list of the dates whose value
\* is over the threshold of the cell (quantile in hundredths)
dates_extreme(dataset, q) ==
    LET ncells == IF dataset.values = <<>> THEN 0 ELSE Len(dataset.values[1])
        Q_thres == [c \in 1..ncells |-> quantile(CellSeries(dataset, c), q)]
        QuantExceed == [d \in DOMAIN dataset.values |->
                          [c \in 1..ncells |-> Exceeds(dataset.values[d][c], Q_thres[c])]]
    IN  [c \in 1..ncells |->
           LET days == SelectSeq([d \in DOMAIN dataset.values |-> d],
                                 LAMBDA d : QuantExceed[d][c])
           IN  [k \in DOMAIN days |-> dataset.time[days[k]]]]

\* Quant = EOBS.quantile(np.array(P_used)/100, dim='time'), percentile = P_used
Quant(EOBS) ==
    LET ncells == IF EOBS.values = <<>> THEN 0 ELSE Len(EOBS.values[1])
    IN  [p \in DOMAIN P_used |->
           [c \in 1..ncells |-> quantile(CellSeries(EOBS, c), P_used[p])]]

\* Exceed_xr = [(EOBS > Quant.sel(percentile=i_p))*1 for i_p in P_used], concatenated
Exceed_xr(EOBS) ==
    [p \in DOMAIN P_used |->
       [d \in DOMAIN EOBS.values |->
          [c \in DOMAIN EOBS.values[d] |->
             IF Exceeds(EOBS.values[d][c], Quant(EOBS)[p][c]) THEN 1 ELSE 0]]]

---------------------------------------------------------------------------
(* transition_matrix(data, lead) *)

\* all the orders of a set as lists
RECURSIVE Orders(_)
Orders(S) ==
    IF S = {} THEN {<<>>}
    ELSE UNION {{<<x>> \o p : p \in Orders(S \ {x})} : x \in S}

\* sorted(S) of a set of numbers: ascending
RECURSIVE sorted(_)
sorted(S) ==
    IF S = {} THEN <<>>
    ELSE LET least == CHOOSE x \in S : \A y \in S : x <= y
         IN  <<least>> \o sorted(S \ {least})

\* sorted(set(data_used)): ascending; with a NaN in the set no order is defined by
\* the comparisons (every one of them is False) and any order may come out
SortedStates(S) ==
    IF \E x \in S : x.nan THEN Orders(S)
    ELSE {[k \in 1..Cardinality(S) |-> Num(sorted({x.v : x \in S})[k])]}

\* the key of the index of Series(dict_sequencial) that get_indexer finds for x: the
\* key equal to x, a NaN key for a NaN
get_indexer(unique_states, x) ==
    CHOOSE k \in DOMAIN unique_states :
       \/ unique_states[k] = x
       \/ unique_states[k].nan /\ x.nan

\* variant: the transition to the next element whatever the lead
lead_one(xs, lead) == Slice(xs, 1, Len(xs))

\* transitions_numbered[lead:]
shifted(xs, lead) == Slice(xs, lead, Len(xs))

\* for (i,j) in zip(a, b): M[i][j] += 1   (i, j numbered from 0)
RECURSIVE CountPairs(_, _, _)
CountPairs(M, a, b) ==
    IF a = <<>> \/ b = <<>> THEN M
    ELSE CountPairs([M EXCEPT ![a[1] + 1][b[1] + 1] = @ + 1], Tail(a), Tail(b))

RECURSIVE sum(_)
sum(row) == IF row = <<>> THEN 0 ELSE row[1] + sum(Tail(row))

\* the rows with a positive sum s become [f/s for f in row], the other rows stay as
\* they are: the fraction f/s is kept as numerator and denominator, an integer f as f/1
Probabilities(M) ==
    [i \in DOMAIN M |->
       LET s == sum(M[i])
       IN  IF s > 0 THEN [j \in DOMAIN M[i] |-> [num |-> M[i][j], den |-> s]]
           ELSE [j \in DOMAIN M[i] |-> [num |-> M[i][j], den |-> 1]]]

\* the body of transition_matrix once sorted() has given unique_states; the map of
\* pandas needs a unique index and takes all the NaN keys for the same key
transition_matrix_on(data_used, lead, unique_states) ==
    LET n == Len(unique_states)
        nans == {k \in DOMAIN unique_states : unique_states[k].nan}
        transitions_numbered ==
            [t \in DOMAIN data_used |-> get_indexer(unique_states, data_used[t]) - 1]
        zeros == [i \in 1..n |-> [j \in 1..n |-> 0]]
        counts == CountPairs(zeros, transitions_numbered,
                             shifted(transitions_numbered, lead))
    IN  IF Cardinality(nans) > 1
        THEN [status |-> "raised", error |-> "InvalidIndexError"]
        ELSE [status |-> "returned", states |-> unique_states, counts |-> counts,
              M |-> Probabilities(counts)]

\* every outcome the call may have
transition_matrix(data, lead) ==
    {transition_matrix_on(data, lead, u) : u \in SortedStates(Range(data))}

---------------------------------------------------------------------------
(* The additional-analysis notebook: names and inputs *)

\* dir_loc = '' of the analysis notebook
dir_loc_analysis == <<>>

ThetaE850 == <<"T", "h", "e", "t", "a", "E", "8", "5", "0">>
WVF == <<"W", "V", "F">>
T850 == <<"T", "8", "5", "0">>
Q850 == <<"Q", "8", "5", "0">>
WVFeast == <<"W", "V", "F", "e", "a", "s", "t">>
WVFnorth == <<"W", "V", "F", "n", "o", "r", "t", "h">>

variables_used == <<ThetaE850, WVF, SLP, T850, Z500, Q850>>

\* Var_ex = 90
Var_ex == 90

\* Clusters_used = 9
Clusters_used == 9

\* dir_loc + 'Data/D1_Mean_' + variable + '.grb'
MeanFile(variable) ==
    dir_loc_analysis \o <<"D", "a", "t", "a", "/", "D", "1", "_", "M", "e", "a", "n",
      "_">>
       \o variable \o grb

EOBS_file_name == <<"D", "a", "t", "a", "/", "E", "O", "B", "S", "_", "M", "e", "d",
  ".", "n", "c">>

ERA5_file_name ==
    <<"D", "a", "t", "a", "/", "D", "1", "_", "T", "o", "t", "a", "l", "_", "P", "r",
      "e", "c", "i", "p", "i", "t", "a", "t", "i", "o", "n", ".", "g", "r", "b">>

Combination_used == <<"M", "e", "d", "_", "S", "L", "P", "~", "Z", "5", "0", "0">>

\* dir_loc + 'DataForPlots/Clusters_' + Combination_used + '.csv'
ClustersFile ==
    dir_loc_analysis \o <<"D", "a", "t", "a", "F", "o", "r", "P", "l", "o", "t", "s",
      "/", "C", "l", "u", "s", "t", "e", "r", "s", "_">>
       \o Combination_used \o <<".", "c", "s", "v">>

OverlapFile ==
    dir_loc_analysis
       \o <<"D", "a", "t", "a", "F", "o", "r", "P", "l", "o", "t", "s", "/", "O",
         "v", "e", "r", "l", "a", "p", "_", "E", "R", "A", "5", "_", "E", "O", "B",
           "S", ".", "n", "c">>

ClusteringStatsFile ==
    dir_loc_analysis
       \o <<"D", "a", "t", "a", "F", "o", "r", "P", "l", "o", "t", "s", "/", "C",
         "l", "u", "s", "t", "e", "r", "i", "n", "g", "S", "t", "a", "t", "s", "_",
           "M", "e", "d", "_", "S", "L", "P", "~", "Z", "5", "0", "0", "_">>
       \o <<"C", "l", "u", "s", "t", "e", "r", "s", "9", "_", "E", "O", "B", "S",
         ".", "n", "c">>

---------------------------------------------------------------------------
(* The additional-analysis notebook: the functions handed to the pools and   *)
(* extremes_to_clusters.  They read the notebook's names (env) and the files, *)
(* as the forked workers do.  A quotient a/b of floats is kept as numerator   *)
(* and denominator.                                                           *)

\* anomalies(variable): the files read and what is derived from them; the values of
\* the fields are not modelled
anomalies(variable) ==
    LET Daily ==
           IF variable \in {SLP, T850, Z500, Q850}
           THEN [op |-> "open_dataarray", of |-> <<files[MeanFile(variable)]>>]
           ELSE IF variable = ThetaE850
           THEN [op |-> "eqpott_p",
                 of |-> <<files[MeanFile(T850)], files[MeanFile(Q850)]>>]
           ELSE [op |-> "sqrt(east**2 + north**2)",
                 of |-> <<files[MeanFile(WVFeast)], files[MeanFile(WVFnorth)]>>]
    IN  [op |-> "anomalies", variable |-> variable, of |-> Daily, area |-> "Area_used"]

\* solver.varianceFraction() of the anomalies of a variable, in percent of the total
\* variance: the spectrum given with the dataset, or else the one given to the model
\* for the variable
varianceFraction(dataset_used) ==
    IF "spectrum" \in DOMAIN dataset_used THEN dataset_used.spectrum
    ELSE CASE dataset_used.variable = ThetaE850 -> <<50, 30, 15, 5>>
           [] dataset_used.variable = WVF -> <<40, 30, 20, 10>>
           [] dataset_used.variable = SLP -> <<95, 5>>
           [] dataset_used.variable = T850 -> <<60, 30, 10>>
           [] dataset_used.variable = Z500 -> <<89, 6, 5>>
           [] OTHER -> <<25, 25, 25, 25>>

\* np.cumsum
cumsum(xs) == [k \in DOMAIN xs |-> sum(SubSeq(xs, 1, k))]

\* variant: np.searchsorted(a, v, side='right')
searchsorted_right(a, v) == Cardinality({k \in DOMAIN a : a[k] <= v})

\* np.searchsorted(a, v): the number of elements of the ascending a that are below v
searchsorted(a, v) == Cardinality({k \in DOMAIN a : a[k] < v})

\* N_eofs = int(np.searchsorted(np.cumsum(fractions), Var_ex/100)); N_eofs += 1
N_eofs(fractions) == searchsorted(cumsum(fractions), Var_ex) + 1

\* eof_analysis(variable); EOFS are named by their rank; solver.eofs(neofs=N) and
\* varianceFraction(neigs=N) give what there is when N is more than that
eof_analysis(variable) ==
    LET dataset_used == env["Anomalies"][variable]
        fractions == varianceFraction(dataset_used)
        N == N_eofs(fractions)
    IN  [EOFS |-> [k \in 1..(IF N < Len(fractions) THEN N ELSE Len(fractions))
                     |-> [eof |-> k, of |-> dataset_used]],
         VARS |-> Slice(fractions, 0, N)]

\* pd.to_datetime of a 'YYYYMMDD' string
to_datetime(s) ==
    [y |-> int(Slice(s, 0, 4)), m |-> int(Slice(s, 4, 6)), d |-> int(Slice(s, 6, 8))]

\* variant: every month taken to have 30 days
PrevDay_30(t) ==
    IF t.d > 1 THEN [t EXCEPT !.d = t.d - 1]
    ELSE IF t.m > 1 THEN [y |-> t.y, m |-> t.m - 1, d |-> 30]
    ELSE [y |-> t.y - 1, m |-> 12, d |-> 30]

\* the day before
PrevDay(t) ==
    IF t.d > 1 THEN [t EXCEPT !.d = t.d - 1]
    ELSE IF t.m > 1 THEN [y |-> t.y, m |-> t.m - 1, d |-> DaysInMonth(t.y, t.m - 1)]
    ELSE [y |-> t.y - 1, m |-> 12, d |-> 31]

\* i_date - pd.DateOffset(days=k)
RECURSIVE MinusDays(_, _)
MinusDays(t, k) == IF k = 0 THEN t ELSE MinusDays(PrevDay(t), k - 1)

\* type(actual_dates) == str: a string, not a list of strings
IsStr(x) == x # <<>> /\ Len(x[1]) = 1

\* days_extend(actual_dates, days_offset): the set of the dates within days_offset
\* days of a date of actual_dates
days_extend(actual_dates, days_offset) ==
    LET dates == IF IsStr(actual_dates) THEN <<actual_dates>> ELSE actual_dates
        dates_dt == [k \in DOMAIN dates |-> to_datetime(dates[k])]
        all_dates == [k \in DOMAIN dates_dt |->
                        date_range(MinusDays(dates_dt[k], days_offset),
                                   2 * days_offset + 1)]
    IN  {strftime(j) : j \in UNION {Range(all_dates[k]) : k \in DOMAIN all_dates}}

\* str(input_data) of a tuple of three non-negative integers
str_tuple(t) ==
    <<"(">> \o str(t[1]) \o <<",", " ">> \o str(t[2]) \o <<",", " ">> \o str(t[3])
       \o <<")">>

\* common_percent: per cell len(set(i) & window(j)) / len(i) * 100, NaN without days
\* of EOBS
common_percent(ERA5_Q, EOBS_Q, offset) ==
    [c \in DOMAIN ERA5_Q |->
       LET i == ERA5_Q[c]
           j == EOBS_Q[c]
           window == IF offset = 0 THEN Range(j) ELSE days_extend(j, offset)
       IN  IF Len(j) # 0
           THEN [nan |-> FALSE, num |-> 100 * Cardinality(Range(i) \cap window),
                 den |-> Len(i)]
           ELSE [nan |-> TRUE, num |-> 0, den |-> 1]]

\* calculate_overlap(input_data): the overlap per cell under the name str(input_data);
\* a cell with days of EOBS and none of ERA5 divides by len(i) = 0
calculate_overlap(input_data) ==
    LET P_ERA5 == input_data[1]
        P_EOBS == input_data[2]
        offset == input_data[3]
        ERA5_Q == dates_extreme(env["ERA5"], P_ERA5)
        EOBS_Q == dates_extreme(env["EOBS"], P_EOBS)
    IN  IF \E c \in DOMAIN ERA5_Q : Len(EOBS_Q[c]) # 0 /\ Len(ERA5_Q[c]) = 0
        THEN [status |-> "raised", error |-> "ZeroDivisionError"]
        ELSE [status |-> "returned",
              value |-> [Input_comb |-> str_tuple(input_data),
                         values |-> common_percent(ERA5_Q, EOBS_Q, offset)]]

\* Combs = [[(i, i, 1), (i, i-2, 1)] for i in P_used], flattened
Combs ==
    Concat([k \in DOMAIN P_used |->
              << <<P_used[k], P_used[k], 1>>, <<P_used[k], P_used[k] - 2, 1>> >>])

\* the datetime of a GRIB date key
DateOfKey(n) == [y |-> n \div 10000, m |-> (n \div 100) % 100, d |-> n % 100]

\* ERA5 = xr.open_dataarray(ERA5_file_name) with the time as '%Y%m%d' strings
read_ERA5(content) ==
    [time |-> [k \in DOMAIN content |-> strftime(DateOfKey(content[k].date))],
     values |-> [k \in DOMAIN content |-> content[k].values]]

\* [::-1]
Reverse(xs) == [k \in DOMAIN xs |-> xs[Len(xs) + 1 - k]]

\* EOBS: latitudes reversed to the order of ERA5, time as strings, and only the
\* dates of ERA5 kept (.sel raises for a date that EOBS does not have)
read_EOBS(content, ERA5) ==
    LET time == [k \in DOMAIN content |-> strftime(content[k].date)]
        Row(t) == CHOOSE k \in DOMAIN content : time[k] = t
    IN  IF \E k \in DOMAIN ERA5.time : ERA5.time[k] \notin Range(time)
        THEN [status |-> "raised", error |-> "KeyError"]
        ELSE [status |-> "returned",
              value |-> [time |-> ERA5.time,
                         values |-> [k \in DOMAIN ERA5.time |->
                                       Reverse(content[Row(ERA5.time[k])].values)]]]

\* NANs_EOBS: the cells with less than 5 % of their days missing
NANs_EOBS(EOBS) ==
    LET ncells == IF EOBS.values = <<>> THEN 0 ELSE Len(EOBS.values[1])
    IN  [c \in 1..ncells |->
           100 * Cardinality({d \in DOMAIN EOBS.values : EOBS.values[d][c].nan})
              < 5 * Len(EOBS.values)]

\* Overlaps.where(NANs_EOBS): NaN in the cells that are not kept
MaskOverlaps(Overlaps, keep) ==
    [k \in DOMAIN Overlaps |->
       [Overlaps[k] EXCEPT !.values =
          [c \in DOMAIN @ |-> IF keep[c] THEN @[c]
                              ELSE [nan |-> TRUE, num |-> 0, den |-> 1]]]]

\* Clustering = pd.read_csv(file_name, index_col=0) with the index as strings
read_Clustering(content) ==
    [index |-> [k \in DOMAIN content.index |-> strftime(content.index[k])],
     columns |-> content.columns]

\* 'Clusters_' + str(n_clusters)
ClustersColumn(n_clusters) ==
    <<"C", "l", "u", "s", "t", "e", "r", "s", "_">> \o str(n_clusters)

\* Series.value_counts().reindex(range(n_clusters)): NaN for a cluster without a day
value_counts(labels, n_clusters) ==
    [k \in 1..n_clusters |->
       LET days == Cardinality({t \in DOMAIN labels : labels[t] = k - 1})
       IN  IF days = 0 THEN NaN(0) ELSE Num(days)]

\* Data.loc[dates]: the labels of the dates
LabelsAt(Clustering, labels, dates) ==
    [k \in DOMAIN dates |->
       labels[CHOOSE t \in DOMAIN Clustering.index : Clustering.index[t] = dates[k]]]

\* statistics_clusters(n_clusters): Totals and Data; the confidence limits are kept
\* as the terms they are computed from
statistics_clusters(n_clusters) ==
    LET Clustering == env["Clustering"]
        Data == Clustering.columns[ClustersColumn(n_clusters)]
        transitions ==
            CHOOSE out \in transition_matrix([t \in DOMAIN Data |-> Num(Data[t])], 1) :
               TRUE
        dates_all == env["EOBS"].time
    IN  IF ClustersColumn(n_clusters) \notin DOMAIN Clustering.columns
           \/ \E k \in DOMAIN dates_all : dates_all[k] \notin Range(Clustering.index)
        THEN [status |-> "raised", error |-> "KeyError"]
        ELSE IF transitions.status = "raised" THEN transitions
        ELSE IF Len(transitions.M) # n_clusters
        THEN [status |-> "raised", error |-> "ValueError"]
        ELSE [status |-> "returned",
              Data |-> Data,
              Totals |-> [Occurrences |-> value_counts(Data, n_clusters),
                          Persistence |-> [k \in 1..n_clusters |-> transitions.M[k][k]],
                          total_days |-> Len(Data),
                          Subset_Occurrences |->
                             value_counts(LabelsAt(Clustering, Data, dates_all),
                                          n_clusters)]]

\* extremes_to_clusters(n_clusters): per percentile, cluster and cell the number of
\* events, their share of the events of the cell and the conditional probability;
\* the limit and the significance are kept as the terms they are computed from
extremes_to_clusters(n_clusters) ==
    LET stats == statistics_clusters(n_clusters)
        Exceed == env["Exceed_xr"]
        cluster == LabelsAt(env["Clustering"], stats.Data, env["EOBS"].time)
        groups == sorted(Range(cluster))
        ncells == Len(NANs_EOBS(env["EOBS"]))
        ExceedCounts ==
            [p \in DOMAIN Exceed |->
               [g \in DOMAIN groups |->
                  [c \in 1..ncells |->
                     sum([d \in DOMAIN cluster |->
                            IF cluster[d] = groups[g] THEN Exceed[p][d][c] ELSE 0])]]]
        CellTotal(p, c) == sum([g \in DOMAIN groups |-> ExceedCounts[p][g][c]])
    IN  IF stats.status = "raised" THEN stats
        ELSE IF Len(groups) # n_clusters
        THEN [status |-> "raised", error |-> "ValueError"]
        ELSE [status |-> "returned",
              value |->
                 [Counts |-> ExceedCounts,
                  PercExtremes |->
                     [p \in DOMAIN Exceed |-> [g \in DOMAIN groups |-> [c \in 1..ncells |->
                        [num |-> 100 * ExceedCounts[p][g][c], den |-> CellTotal(p, c)]]]],
                  CondProb |->
                     [p \in DOMAIN Exceed |-> [g \in DOMAIN groups |-> [c \in 1..ncells |->
                        [num |-> 100 * ExceedCounts[p][g][c],
                         den |-> stats.Totals.Subset_Occurrences[g].v]]]],
                  CondProbUpperLimit |-> [op |-> "Counts / Occur_Max * 100",
                                          of |-> stats.Totals],
                  Significance |-> [op |-> "binom_test", of |-> stats.Totals]]]

\* ExtremesClusters.where(NANs_EOBS): NaN in the cells that are not kept
MaskCells(a, keep) ==
    [p \in DOMAIN a |-> [g \in DOMAIN a[p] |-> [c \in DOMAIN a[p][g] |->
       IF keep[c] THEN [nan |-> FALSE, is |-> a[p][g][c]]
       ELSE [nan |-> TRUE, is |-> 0]]]]

MaskExtremes(Final, keep) ==
    [Final EXCEPT !.Counts = MaskCells(@, keep),
                  !.PercExtremes = MaskCells(@, keep),
                  !.CondProb = MaskCells(@, keep),
                  !.CondProbUpperLimit = [op |-> "where", of |-> @, keep |-> keep],
                  !.Significance = [op |-> "where", of |-> @, keep |-> keep]]

---------------------------------------------------------------------------
(* Steps of the worker processes and of the imap iterator *)

\* what the call of the function of a task gives: the value returned to the main
\* process, or the exception of the function
Apply(fn, input) ==
    CASE fn \in {"atm_subset", "download_ERA5_fullhourly"} ->
            [status |-> "returned", value |-> atm_subset(input)]
      [] fn = "precip_subset" -> [status |-> "returned", value |-> precip_subset(input)]
      [] fn = "download_precip_ERA5" ->
            [status |-> "returned", value |-> download_precip_ERA5(input)]
      [] fn = "anomalies" -> [status |-> "returned", value |-> anomalies(input)]
      [] fn = "eof_analysis" -> [status |-> "returned", value |-> eof_analysis(input)]
      [] fn = "calculate_overlap" -> calculate_overlap(input)
      [] OTHER -> [status |-> "returned", value |-> <<>>]

\* the functions that retrieve from MARS
RetrievingFns ==
    {"atm_subset", "precip_subset", "download_data", "download_precip",
     "download_ERA5_fullhourly", "download_precip_ERA5"}

\* variant: no file is ever found
exists_never(file_name) == FALSE

\* Path(file_name).exists()
exists(file_name) == file_name \in DOMAIN files

\* what a download task writes
Downloaded(t) ==
    IF t.fn = "download_data" THEN download_data(t.input) ELSE download_precip(t.input)

\* the main process is inside list(tqdm.tqdm(pool.imap(...)))
InImap ==
    pc \in {"atm_imap", "precip_imap", "data_imap", "rfprecip_imap", "hourly_imap",
            "era5precip_imap", "anom_imap", "eof_imap", "overlap_imap"}

\* an idle worker takes the first queued task and calls the function (runs counts the
\* calls of the function on the task); a download
\* function returns at once when its file exists, and else starts the retrieval
TaskStart ==
    /\ Queued # {} /\ Cardinality(Running) < NProcs
    /\ LET i == CHOOSE j \in Queued : \A k \in Queued : j <= k
           t == tasks[i]
           called == [log EXCEPT !.calls = @ \cup {<<t.fn, "pool">>}]
       IN  IF t.fn \in DownloadFns
           THEN IF exists(TaskFile(t))
                THEN /\ tasks' = [tasks EXCEPT ![i].status = "done", ![i].runs = @ + 1]
                     /\ log' = called
                ELSE /\ tasks' = [tasks EXCEPT ![i].status = "running", ![i].runs = @ + 1]
                     /\ log' = [called EXCEPT !.retrievals = CountOne(@, TaskFile(t))]
           ELSE /\ tasks' = [tasks EXCEPT ![i].status = "running", ![i].runs = @ + 1]
                /\ log' = called
    /\ UNCHANGED <<anVars, script, pc, dateVars, var_i, results, AtmVar, Precip, files>>

\* the function runs to its end: a download function writes its file, the other
\* functions return their value, or raise
TaskReturn ==
    \E i \in Running :
       LET t == tasks[i]
       IN  /\ IF t.fn \in DownloadFns
              THEN /\ tasks' = [tasks EXCEPT ![i].status = "done"]
                   /\ files' = WriteFile(files, TaskFile(t), Downloaded(t))
                   /\ log' = [log EXCEPT !.writes = CountOne(@, TaskFile(t))]
              ELSE /\ LET out == Apply(t.fn, t.input)
                      IN  tasks' = IF out.status = "raised"
                                   THEN [tasks EXCEPT ![i].status = "failed"]
                                   ELSE [tasks EXCEPT ![i].status = "done",
                                                      ![i].result = out.value]
                   /\ UNCHANGED <<files, log>>
           /\ UNCHANGED <<anVars, script, pc, dateVars, var_i, results, AtmVar, Precip>>

\* variant: the exception is caught and the task is queued again
TaskRequeue ==
    /\ log.failures < MaxFailures
    /\ \E i \in Running :
          /\ tasks[i].fn \in RetrievingFns
          /\ tasks' = [tasks EXCEPT ![i].status = "queued"]
          /\ log' = [log EXCEPT !.failures = @ + 1]
          /\ UNCHANGED <<anVars, script, pc, dateVars, var_i, results, AtmVar, Precip, files>>

\* mv.retrieve fails: the exception is sent back in place of the result
TaskRaise ==
    /\ log.failures < MaxFailures
    /\ \E i \in Running :
          /\ tasks[i].fn \in RetrievingFns
          /\ tasks' = [tasks EXCEPT ![i].status = "failed"]
          /\ log' = [log EXCEPT !.failures = @ + 1]
          /\ UNCHANGED <<anVars, script, pc, dateVars, var_i, results, AtmVar, Precip, files>>

\* list(...) takes the next result from the imap iterator
NextResult ==
    /\ InImap
    /\ Len(results) < Len(tasks)
    /\ tasks[Len(results) + 1].status = "done"
    /\ results' = Append(results, tasks[Len(results) + 1].result)
    /\ UNCHANGED <<anVars, script, pc, dateVars, var_i, tasks, AtmVar, Precip, files, log>>

\* the next result is an exception: it is raised in the main process, the cell and
\* the run stop
RaiseInMain ==
    /\ InImap
    /\ Len(results) < Len(tasks)
    /\ tasks[Len(results) + 1].status = "failed"
    /\ pc' = "error"
    /\ UNCHANGED <<anVars, script, dateVars, var_i, tasks, results, AtmVar, Precip, files, log>>

\* the steps of the pool's processes and of the iterator
Workers == TaskStart \/ TaskReturn \/ TaskRaise \/ NextResult \/ RaiseInMain

---------------------------------------------------------------------------
(* Paper1/Scripts/Script1 Data Download.ipynb: the cells *)

InitP1 ==
    /\ script = "Paper1"
    /\ pc = "cell6"
    /\ initialization_dates = <<>>
    /\ dates_generated_all \in {DateList(t, n) : t \in StartDates, n \in Spans}
    /\ dates_atm_vars = <<>>
    /\ dates_precipit = <<>>
    /\ var_i = 1
    /\ tasks = <<>>
    /\ results = <<>>
    /\ AtmVar = <<>>
    /\ Precip = <<>>
    /\ files = <<>>
    /\ log = EmptyLog
    /\ env = <<>>
    /\ call = <<>>
    /\ ret = <<>>

\* cell 6: chunk the dates per year-month
P1_Cell6 ==
    /\ script = "Paper1" /\ pc = "cell6"
    /\ dates_atm_vars' = groupby(dates_generated_all)
    /\ dates_precipit' = MakeDatesPrecipit(dates_atm_vars')
    /\ pc' = "atm_pool"
    /\ UNCHANGED <<anVars, script, initialization_dates, dates_generated_all, var_i, tasks,
                   results, AtmVar, Precip, files, log>>

\* cell 8, top of the loop body: pool_atmvar = Pool(); pool_atmvar.imap(atm_subset, Inputs)
P1_AtmPool ==
    /\ script = "Paper1" /\ pc = "atm_pool"
    /\ tasks' = imap("atm_subset", Inputs(data_inputs[var_i], dates_atm_vars))
    /\ results' = <<>>
    /\ pc' = "atm_imap"
    /\ UNCHANGED <<anVars, script, dateVars, var_i, AtmVar, Precip, files, log>>

\* cell 8, rest of the loop body: close the pool, concatenate, write, keep in AtmVar
P1_AtmSave ==
    /\ script = "Paper1" /\ pc = "atm_imap" /\ AllConsumed
    /\ LET var == data_inputs[var_i]
           DailyAll == Concat(results)
           key == LastPart(var[4])
       IN  /\ files' = WriteFile(files, AtmPath(var), DailyAll)
           /\ log' = [log EXCEPT !.writes = CountOne(@, AtmPath(var))]
           /\ AtmVar' = WriteFile(AtmVar, key, DailyAll)
    /\ tasks' = <<>>
    /\ results' = <<>>
    /\ var_i' = var_i + 1
    /\ pc' = IF var_i < Len(data_inputs) THEN "atm_pool" ELSE "precip_pool"
    /\ UNCHANGED <<anVars, script, dateVars, Precip>>

\* cell 10: pool_precip = Pool(); pool_precip.imap(precip_subset, dates_precipit)
P1_PrecipPool ==
    /\ script = "Paper1" /\ pc = "precip_pool"
    /\ tasks' = imap("precip_subset", dates_precipit)
    /\ results' = <<>>
    /\ pc' = "precip_imap"
    /\ UNCHANGED <<anVars, script, dateVars, var_i, AtmVar, Precip, files, log>>

\* cell 10, after the list is complete: concatenate, convert, crop, write
P1_PrecipSave ==
    /\ script = "Paper1" /\ pc = "precip_imap" /\ AllConsumed
    /\ Precip' = ToMmAndCrop(Concat(results))
    /\ files' = WriteFile(files, PrecipPath, Precip')
    /\ log' = [log EXCEPT !.writes = CountOne(@, PrecipPath)]
    /\ tasks' = <<>>
    /\ results' = <<>>
    /\ pc' = "done"
    /\ UNCHANGED <<anVars, script, dateVars, var_i, AtmVar>>

P1_Cells == P1_Cell6 \/ P1_AtmPool \/ P1_AtmSave \/ P1_PrecipPool \/ P1_PrecipSave

NextP1 == P1_Cells \/ Workers

SpecP1 == InitP1 /\ [][NextP1]_vars

---------------------------------------------------------------------------
(* Paper2/Scripts/Script1_DownloadData.ipynb: the cells *)

\* the files an earlier run may have left: none, one, or all of the reforecast files
ExistingFiles ==
    LET all == ReforecastFiles(KeptDates(date_range(start_date, InitSpan)))
    IN  {{}} \cup {{q} : q \in all} \cup {all}

InitP2 ==
    /\ script = "Paper2"
    /\ pc = "cell6"
    /\ initialization_dates = <<>>
    /\ dates_generated_all = <<>>
    /\ dates_atm_vars = <<>>
    /\ dates_precipit = <<>>
    /\ var_i = 1
    /\ tasks = <<>>
    /\ results = <<>>
    /\ AtmVar = <<>>
    /\ Precip = <<>>
    /\ \E S \in ExistingFiles : files = [q \in S |-> OldFile]
    /\ log = EmptyLog
    /\ env = <<>>
    /\ call = <<>>
    /\ ret = <<>>

\* cell 6: the initialization dates of the reforecasts
P2_Cell6 ==
    /\ script = "Paper2" /\ pc = "cell6"
    /\ initialization_dates' = KeptDates(date_range(start_date, InitSpan))
    /\ pc' = "data_pool"
    /\ UNCHANGED <<anVars, script, dates_generated_all, dates_atm_vars, dates_precipit, var_i,
                   tasks, results, AtmVar, Precip, files, log>>

\* cell 8: All_combs = product(vars, ['cf','pf'], initialization_dates); pool.imap
P2_DataPool ==
    /\ script = "Paper2" /\ pc = "data_pool"
    /\ tasks' = imap("download_data",
                     product3([i \in DOMAIN Reforecasts_vars_used |->
                                  Reforecasts_vars_used[i][1]],
                              <<cf, pf>>, initialization_dates))
    /\ results' = <<>>
    /\ pc' = "data_imap"
    /\ UNCHANGED <<anVars, script, dateVars, var_i, AtmVar, Precip, files, log>>

\* cell 8, after the list is complete: pool.close(); del(pool, All_combs)
P2_DataClose ==
    /\ script = "Paper2" /\ pc = "data_imap" /\ AllConsumed
    /\ tasks' = <<>>
    /\ results' = <<>>
    /\ pc' = "rfprecip_pool"
    /\ UNCHANGED <<anVars, script, dateVars, var_i, AtmVar, Precip, files, log>>

\* cell 10: All_combs = product(['cf','pf'], initialization_dates); pool.imap
P2_RfPrecipPool ==
    /\ script = "Paper2" /\ pc = "rfprecip_pool"
    /\ tasks' = imap("download_precip", product2(<<cf, pf>>, initialization_dates))
    /\ results' = <<>>
    /\ pc' = "rfprecip_imap"
    /\ UNCHANGED <<anVars, script, dateVars, var_i, AtmVar, Precip, files, log>>

\* cell 10, after the list is complete
P2_RfPrecipClose ==
    /\ script = "Paper2" /\ pc = "rfprecip_imap" /\ AllConsumed
    /\ tasks' = <<>>
    /\ results' = <<>>
    /\ pc' = "cell11"
    /\ UNCHANGED <<anVars, script, dateVars, var_i, AtmVar, Precip, files, log>>

\* cell 11: the ERA5 dates and their year-month chunks
P2_Cell11 ==
    /\ script = "Paper2" /\ pc = "cell11"
    /\ dates_generated_all' \in P2Ranges
    /\ dates_atm_vars' = groupby(dates_generated_all')
    /\ var_i' = 1
    /\ pc' = "utc_loop"
    /\ UNCHANGED <<anVars, script, initialization_dates, dates_precipit, tasks, results,
                   AtmVar, Precip, files, log>>

\* cell 13, inner loop: i_daily = download_ERA5_0UTC([...]) called by the main
\* process itself, one chunk after the other; Daily.append(i_daily)
P2_UtcCall ==
    /\ script = "Paper2" /\ pc = "utc_loop"
    /\ Len(results) < Len(dates_atm_vars)
    /\ LET var == ERA5_vars_used[var_i]
           i_dates == dates_atm_vars[Len(results) + 1]
       IN  results' = Append(results,
                             download_ERA5_0UTC(<<var[1], var[2], var[3], i_dates>>))
    /\ log' = [log EXCEPT !.calls = @ \cup {<<"download_ERA5_0UTC", "main">>}]
    /\ UNCHANGED <<anVars, script, pc, dateVars, var_i, tasks, AtmVar, Precip, files>>

\* cell 13: the retrieval of the call fails, the exception stops the cell
P2_UtcRaise ==
    /\ script = "Paper2" /\ pc = "utc_loop"
    /\ Len(results) < Len(dates_atm_vars)
    /\ log.failures < MaxFailures
    /\ log' = [log EXCEPT !.calls = @ \cup {<<"download_ERA5_0UTC", "main">>},
                          !.failures = @ + 1]
    /\ pc' = "error"
    /\ UNCHANGED <<anVars, script, dateVars, var_i, tasks, results, AtmVar, Precip, files>>

\* cell 13, end of the outer loop body: write the 00 UTC file, keep in AtmVar
P2_UtcSave ==
    /\ script = "Paper2" /\ pc = "utc_loop"
    /\ Len(results) = Len(dates_atm_vars)
    /\ LET var == ERA5_vars_used[var_i]
           Daily == Concat(results)
       IN  /\ files' = WriteFile(files, UtcPath(var), Daily)
           /\ log' = [log EXCEPT !.writes = CountOne(@, UtcPath(var))]
           /\ AtmVar' = WriteFile(AtmVar, LastPart(var[4]), Daily)
    /\ results' = <<>>
    /\ var_i' = IF var_i < Len(ERA5_vars_used) THEN var_i + 1 ELSE 1
    /\ pc' = IF var_i < Len(ERA5_vars_used) THEN "utc_loop" ELSE "hourly_pool"
    /\ UNCHANGED <<anVars, script, dateVars, tasks, Precip>>

\* cell 15, top of the loop body: AtmVar = {} before the first variable;
\* pool_atmvar.imap(download_ERA5_fullhourly, Inputs)
P2_HourlyPool ==
    /\ script = "Paper2" /\ pc = "hourly_pool"
    /\ tasks' = imap("download_ERA5_fullhourly",
                     Inputs(ERA5_vars_used[var_i], dates_atm_vars))
    /\ results' = <<>>
    /\ AtmVar' = IF var_i = 1 THEN <<>> ELSE AtmVar
    /\ pc' = "hourly_imap"
    /\ UNCHANGED <<anVars, script, dateVars, var_i, Precip, files, log>>

\* cell 15, rest of the loop body: close the pool, concatenate, write, keep in AtmVar
P2_HourlySave ==
    /\ script = "Paper2" /\ pc = "hourly_imap" /\ AllConsumed
    /\ LET var == ERA5_vars_used[var_i]
           Daily == Concat(results)
       IN  /\ files' = WriteFile(files, HourlyPath(var), Daily)
           /\ log' = [log EXCEPT !.writes = CountOne(@, HourlyPath(var))]
           /\ AtmVar' = WriteFile(AtmVar, LastPart(var[4]), Daily)
    /\ tasks' = <<>>
    /\ results' = <<>>
    /\ var_i' = var_i + 1
    /\ pc' = IF var_i < Len(ERA5_vars_used) THEN "hourly_pool" ELSE "cell16"
    /\ UNCHANGED <<anVars, script, dateVars, Precip>>

\* cell 16: the chunks of the precipitation
P2_Cell16 ==
    /\ script = "Paper2" /\ pc = "cell16"
    /\ dates_precipit' = MakeDatesPrecipit(dates_atm_vars)
    /\ pc' = "era5precip_pool"
    /\ UNCHANGED <<anVars, script, initialization_dates, dates_generated_all, dates_atm_vars,
                   var_i, tasks, results, AtmVar, Precip, files, log>>

\* cell 18: pool_precip.imap(download_precip, dates_precipit), download_precip being
\* the function of cell 17
P2_ERA5PrecipPool ==
    /\ script = "Paper2" /\ pc = "era5precip_pool"
    /\ tasks' = imap("download_precip_ERA5", dates_precipit)
    /\ results' = <<>>
    /\ pc' = "era5precip_imap"
    /\ UNCHANGED <<anVars, script, dateVars, var_i, AtmVar, Precip, files, log>>

\* cell 18, after the list is complete: concatenate, convert, crop, write
P2_ERA5PrecipSave ==
    /\ script = "Paper2" /\ pc = "era5precip_imap" /\ AllConsumed
    /\ Precip' = ToMmAndCrop(Concat(results))
    /\ files' = WriteFile(files, ERA5PrecipPath, Precip')
    /\ log' = [log EXCEPT !.writes = CountOne(@, ERA5PrecipPath)]
    /\ tasks' = <<>>
    /\ results' = <<>>
    /\ pc' = "done"
    /\ UNCHANGED <<anVars, script, dateVars, var_i, AtmVar>>

P2_Cells ==
    \/ P2_Cell6 \/ P2_DataPool \/ P2_DataClose \/ P2_RfPrecipPool \/ P2_RfPrecipClose
    \/ P2_Cell11 \/ P2_UtcCall \/ P2_UtcRaise \/ P2_UtcSave
    \/ P2_HourlyPool \/ P2_HourlySave \/ P2_Cell16
    \/ P2_ERA5PrecipPool \/ P2_ERA5PrecipSave

NextP2 == P2_Cells \/ Workers

SpecP2 == InitP2 /\ [][NextP2]_vars

---------------------------------------------------------------------------
(* Calls of single functions of the analysis notebook, on inputs drawn from  *)
(* bounded sets.                                                             *)

\* the state of the notebooks' variables in a run that only calls a function
NoNotebook ==
    /\ initialization_dates = <<>>
    /\ dates_generated_all = <<>>
    /\ dates_atm_vars = <<>>
    /\ dates_precipit = <<>>
    /\ var_i = 1
    /\ tasks = <<>>
    /\ results = <<>>
    /\ AtmVar = <<>>
    /\ Precip = <<>>
    /\ files = <<>>
    /\ log = EmptyLog
    /\ env = <<>>

nbVars == <<script, dateVars, var_i, tasks, results, AtmVar, Precip, files, log, env>>

\* the values a cell may hold on a day
CellValues == {NaN(0), Num(0), Num(1)}

\* the cells of the grid, flattened
GridCells == {1, 2}

\* the first date of the precipitation data
FirstPrecipDate == [y |-> 1979, m |-> 1, d |-> 2]

\* the datasets drawn: a time axis of 1..MaxDays dates, a value per day and cell
Datasets ==
    UNION {{[time |-> DateList(FirstPrecipDate, n), values |-> vs] :
              vs \in [1..n -> [GridCells -> CellValues]]} : n \in 1..MaxDays}

\* the percentiles dates_extreme is called with: Combs = [(i, i, 1), (i, i-2, 1)]
QuantilesUsed == Range(P_used) \cup {P_used[i] - 2 : i \in DOMAIN P_used}

InitEPE ==
    /\ script = "EPE"
    /\ pc = "call"
    /\ call \in [dataset : Datasets, quantile : QuantilesUsed]
    /\ ret = <<>>
    /\ NoNotebook

\* dates_extreme(dataset, quantile/100)
Call_dates_extreme ==
    /\ script = "EPE" /\ pc = "call"
    /\ ret' = [fn |-> "dates_extreme",
               value |-> dates_extreme(call.dataset, call.quantile)]
    /\ pc' = "returned"
    /\ UNCHANGED <<nbVars, call>>

\* cell 20 with EOBS = dataset: Quant and Exceed_xr for all of P_used
Call_Exceed_xr ==
    /\ script = "EPE" /\ pc = "call"
    /\ ret' = [fn |-> "Exceed_xr", value |-> Exceed_xr(call.dataset)]
    /\ pc' = "returned"
    /\ UNCHANGED <<nbVars, call>>

NextEPE == Call_dates_extreme \/ Call_Exceed_xr

SpecEPE == InitEPE /\ [][NextEPE]_vars

\* the elements a sequence of states may hold: labels, and two NaN objects
StateValues == {Num(0), Num(1), Num(2), NaN(1), NaN(2)}

\* the sequences drawn for data: every list of 0..MaxLen elements
StateSequences == UNION {[1..n -> StateValues] : n \in 0..MaxLen}

InitTM ==
    /\ script = "transition_matrix"
    /\ pc = "call"
    /\ call \in [data : StateSequences, lead : 1..MaxLead]
    /\ ret = <<>>
    /\ NoNotebook

\* transition_matrix(data, lead) returns M
TM_Return ==
    /\ script = "transition_matrix" /\ pc = "call"
    /\ \E out \in transition_matrix(call.data, call.lead) :
          /\ out.status = "returned"
          /\ ret' = out
    /\ pc' = "returned"
    /\ UNCHANGED <<nbVars, call>>

\* transition_matrix(data, lead) raises
TM_Raise ==
    /\ script = "transition_matrix" /\ pc = "call"
    /\ \E out \in transition_matrix(call.data, call.lead) :
          /\ out.status = "raised"
          /\ ret' = out
    /\ pc' = "raised"
    /\ UNCHANGED <<nbVars, call>>

NextTM == TM_Return \/ TM_Raise

SpecTM == InitTM /\ [][NextTM]_vars

\* the shares of the total variance an EOF may have, in percent
Percents == {5 * k : k \in 1..20}

\* the spectra of at most n EOFs: shares in descending order that add up to total
RECURSIVE SpectraOf(_, _, _)
SpectraOf(total, largest, n) ==
    IF total = 0 THEN {<<>>}
    ELSE IF n = 0 THEN {}
    ELSE UNION {{<<p>> \o rest : rest \in SpectraOf(total - p, p, n - 1)} :
                  p \in {q \in Percents : q <= largest /\ q <= total}}

\* the spectra drawn for the anomalies of a variable
Spectra == SpectraOf(100, 100, MaxEofs)

InitEOF ==
    /\ script = "eof_analysis"
    /\ pc = "call"
    /\ call \in [variable : {SLP, Q850}, spectrum : Spectra]
    /\ ret = <<>>
    /\ initialization_dates = <<>>
    /\ dates_generated_all = <<>>
    /\ dates_atm_vars = <<>>
    /\ dates_precipit = <<>>
    /\ var_i = 1
    /\ tasks = <<>>
    /\ results = <<>>
    /\ AtmVar = <<>>
    /\ Precip = <<>>
    /\ files = <<>>
    /\ log = EmptyLog
    /\ env = [Anomalies |->
                [v \in {call.variable} |->
                   [op |-> "anomalies", variable |-> v, spectrum |-> call.spectrum]]]

\* eof_analysis(variable) with Anomalies[variable] of the spectrum drawn
Call_eof_analysis ==
    /\ script = "eof_analysis" /\ pc = "call"
    /\ ret' = [fn |-> "eof_analysis", value |-> eof_analysis(call.variable)]
    /\ pc' = "returned"
    /\ UNCHANGED <<nbVars, call>>

NextEOF == Call_eof_analysis

SpecEOF == InitEOF /\ [][NextEOF]_vars

\* the dates a list given to days_extend is drawn from: around the ends of years and
\* of the Februaries of a leap and of a common year
WindowDates ==
    {DateList(t, 1)[1] :
        t \in {[y |-> 1979, m |-> 1, d |-> 1], [y |-> 1979, m |-> 12, d |-> 31],
               [y |-> 1980, m |-> 2, d |-> 28], [y |-> 1980, m |-> 3, d |-> 1],
               [y |-> 1981, m |-> 3, d |-> 1], [y |-> 1979, m |-> 1, d |-> 3]}}

\* actual_dates: one date as a string, or a list of 0..MaxDates dates
DateInputs == WindowDates \cup UNION {[1..n -> WindowDates] : n \in 0..MaxDates}

InitDE ==
    /\ script = "days_extend"
    /\ pc = "call"
    /\ call \in [actual_dates : DateInputs, days_offset : 0..MaxOffset]
    /\ ret = <<>>
    /\ NoNotebook

\* days_extend(actual_dates, days_offset)
Call_days_extend ==
    /\ script = "days_extend" /\ pc = "call"
    /\ ret' = [fn |-> "days_extend",
               value |-> days_extend(call.actual_dates, call.days_offset)]
    /\ pc' = "returned"
    /\ UNCHANGED <<nbVars, call>>

NextDE == Call_days_extend

SpecDE == InitDE /\ [][NextDE]_vars


\* the input_data drawn: (P_ERA5, P_EOBS, offset), with the lowest percentiles of Combs
\* and with low ones, which several days exceed
OverlapInputs ==
    {<<p, q, o>> : p \in {25, P_used[Len(P_used)]},
                   q \in {25, P_used[Len(P_used)] - 2},
                   o \in 0..MaxOffset}

\* the dataset of a series: the series in the first cell and the series backwards in the
\* second
TwoCells(series) ==
    [time |-> DateList(FirstPrecipDate, Len(series)),
     values |-> [d \in DOMAIN series |-> <<series[d], Reverse(series)[d]>>]]

InitOV ==
    /\ script = "calculate_overlap"
    /\ pc = "call"
    /\ call \in [input_data : OverlapInputs,
                 ERA5 : [1..MaxDays -> {Num(0), Num(1)}],
                 EOBS : [1..MaxDays -> CellValues]]
    /\ ret = <<>>
    /\ initialization_dates = <<>>
    /\ dates_generated_all = <<>>
    /\ dates_atm_vars = <<>>
    /\ dates_precipit = <<>>
    /\ var_i = 1
    /\ tasks = <<>>
    /\ results = <<>>
    /\ AtmVar = <<>>
    /\ Precip = <<>>
    /\ files = <<>>
    /\ log = EmptyLog
    /\ env = [ERA5 |-> TwoCells(call.ERA5), EOBS |-> TwoCells(call.EOBS)]

\* calculate_overlap(input_data) returns the overlaps
OV_Return ==
    /\ script = "calculate_overlap" /\ pc = "call"
    /\ LET out == calculate_overlap(call.input_data)
       IN  /\ out.status = "returned"
           /\ ret' = [fn |-> "calculate_overlap", value |-> out.value]
    /\ pc' = "returned"
    /\ UNCHANGED <<nbVars, call>>

\* calculate_overlap(input_data) raises
OV_Raise ==
    /\ script = "calculate_overlap" /\ pc = "call"
    /\ LET out == calculate_overlap(call.input_data)
       IN  /\ out.status = "raised"
           /\ ret' = out
    /\ pc' = "raised"
    /\ UNCHANGED <<nbVars, call>>

NextOV == OV_Return \/ OV_Raise

SpecOV == InitOV /\ [][NextOV]_vars
---------------------------------------------------------------------------
(* The additional-analysis notebook: the inputs given to the model and the cells *)

\* the first day of the clustering results
FirstClusterDate == [y |-> 1979, m |-> 1, d |-> 1]

\* the days of the precipitation data given to the notebook run
AnalysisDays == Clusters_used

\* series of the precipitation (in whole units) of a cell over the days
Rising == [d \in 1..AnalysisDays |-> Num(d - 1)]
Flat == [d \in 1..AnalysisDays |-> Num(1)]
LateRain == [d \in 1..AnalysisDays |-> Num(IF d < AnalysisDays - 1 THEN 0 ELSE d)]
Sea == [d \in 1..AnalysisDays |-> NaN(0)]
Gappy == [d \in 1..AnalysisDays |-> IF d = 1 THEN NaN(0) ELSE Num(d % 3)]

\* the GRIB file of the daily precipitation: one field per day, a value per cell
PrecipGrib(cell1, cell2) ==
    LET dates == DateList(FirstPrecipDate, AnalysisDays)
    IN  [k \in 1..AnalysisDays |-> [date |-> int(dates[k]), values |-> <<cell1[k], cell2[k]>>]]

\* the EOBS file: from the first day of 1979 on, the latitudes from south to north
EOBSFile(cell1, cell2) ==
    LET days == date_range(FirstClusterDate, AnalysisDays + 1)
    IN  [k \in 1..(AnalysisDays + 1) |->
           [date |-> days[k],
            values |-> IF k = 1 THEN <<Num(0), Num(0)>> ELSE <<cell2[k - 1], cell1[k - 1]>>]]

\* the clustering results: a label per day from the first day of 1979 on
ClustersCsv(labels) ==
    [index |-> date_range(FirstClusterDate, Len(labels)),
     columns |-> (ClustersColumn(Clusters_used) :> labels)]

\* the label lists drawn: every cluster on the days of the precipitation data; a
\* cluster only on the first day; a cluster on no day
LabelLists ==
    {<<0>> \o [d \in 1..AnalysisDays |-> d - 1],
     <<Clusters_used - 1>> \o [d \in 1..AnalysisDays |-> IF d = 1 THEN 0 ELSE d - 2],
     <<0>> \o [d \in 1..AnalysisDays |-> IF d = 1 THEN 0 ELSE d - 2]}

\* the fields of the downloaded daily means, as the Paper1 script writes them
MeanFiles ==
    [q \in {MeanFile(v) : v \in {SLP, T850, Z500, Q850, WVFeast, WVFnorth}} |->
       [Fieldset |-> q]]

\* the file systems the run may start from
AnalysisInputs ==
    {MeanFiles @@ (ERA5_file_name :> PrecipGrib(e[1], e[2]))
               @@ (EOBS_file_name :> EOBSFile(o[1], o[2]))
               @@ (ClustersFile :> ClustersCsv(l)) :
        e \in {<<Rising, Rising>>, <<Rising, Flat>>},
        o \in {<<LateRain, Sea>>, <<LateRain, LateRain>>, <<LateRain, Gappy>>},
        l \in LabelLists}

InitAn ==
    /\ script = "Analysis"
    /\ pc = "cell8"
    /\ initialization_dates = <<>>
    /\ dates_generated_all = <<>>
    /\ dates_atm_vars = <<>>
    /\ dates_precipit = <<>>
    /\ var_i = 1
    /\ tasks = <<>>
    /\ results = <<>>
    /\ AtmVar = <<>>
    /\ Precip = <<>>
    /\ files \in AnalysisInputs
    /\ log = EmptyLog
    /\ env = <<>>
    /\ call = <<>>
    /\ ret = <<>>

runVars == <<script, dateVars, var_i, AtmVar, Precip, call, ret>>

\* {variables_used[i_c]: i_anom for i_c, i_anom in enumerate(...)}
AsDict(keys, values) ==
    [q \in Range(keys) |-> values[CHOOSE k \in DOMAIN keys : keys[k] = q]]

\* cell 8: pool.imap(anomalies, variables_used)
AN_AnomPool ==
    /\ script = "Analysis" /\ pc = "cell8"
    /\ tasks' = imap("anomalies", variables_used)
    /\ results' = <<>>
    /\ pc' = "anom_imap"
    /\ UNCHANGED <<runVars, files, log, env>>

\* cell 8, after the list is complete: pool.close(); Anomalies = {...}
AN_AnomClose ==
    /\ script = "Analysis" /\ pc = "anom_imap" /\ AllConsumed
    /\ env' = WriteFile(env, "Anomalies", AsDict(variables_used, results))
    /\ tasks' = <<>>
    /\ results' = <<>>
    /\ pc' = "eof_pool"
    /\ UNCHANGED <<runVars, files, log>>

\* cell 10: pool.imap(eof_analysis, variables_used)
AN_EofPool ==
    /\ script = "Analysis" /\ pc = "eof_pool"
    /\ tasks' = imap("eof_analysis", variables_used)
    /\ results' = <<>>
    /\ pc' = "eof_imap"
    /\ UNCHANGED <<runVars, files, log, env>>

\* cell 10, after the list is complete: pool.close(); EOFS = {...}
AN_EofClose ==
    /\ script = "Analysis" /\ pc = "eof_imap" /\ AllConsumed
    /\ env' = WriteFile(env, "EOFS", AsDict(variables_used, results))
    /\ tasks' = <<>>
    /\ results' = <<>>
    /\ pc' = "cell13"
    /\ UNCHANGED <<runVars, files, log>>

\* cells 12 and 13: P_used sorted; ERA5, EOBS and NANs_EOBS
AN_Preprocess ==
    /\ script = "Analysis" /\ pc = "cell13"
    /\ LET ERA5 == read_ERA5(files[dir_loc_analysis \o ERA5_file_name])
           EOBS == read_EOBS(files[dir_loc_analysis \o EOBS_file_name], ERA5)
       IN  IF EOBS.status = "raised"
           THEN pc' = "error" /\ env' = WriteFile(env, "ERA5", ERA5)
           ELSE /\ pc' = "overlap_pool"
                /\ env' = WriteFile(WriteFile(WriteFile(env, "ERA5", ERA5),
                                              "EOBS", EOBS.value),
                                    "NANs_EOBS", NANs_EOBS(EOBS.value))
    /\ UNCHANGED <<runVars, tasks, results, files, log>>

\* cell 18: pool.imap(calculate_overlap, Combs)
AN_OverlapPool ==
    /\ script = "Analysis" /\ pc = "overlap_pool"
    /\ tasks' = imap("calculate_overlap", Combs)
    /\ results' = <<>>
    /\ pc' = "overlap_imap"
    /\ UNCHANGED <<runVars, files, log, env>>

\* cell 18, after the list is complete: concatenate, mask, save
AN_OverlapSave ==
    /\ script = "Analysis" /\ pc = "overlap_imap" /\ AllConsumed
    /\ env' = WriteFile(env, "Overlaps", MaskOverlaps(results, env["NANs_EOBS"]))
    /\ files' = WriteFile(files, OverlapFile, env'["Overlaps"])
    /\ log' = [log EXCEPT !.writes = CountOne(@, OverlapFile)]
    /\ tasks' = <<>>
    /\ results' = <<>>
    /\ pc' = "cell19"
    /\ UNCHANGED runVars

\* cells 19 and 20: Clustering, Quant and Exceed_xr
AN_Clustering ==
    /\ script = "Analysis" /\ pc = "cell19"
    /\ env' = WriteFile(WriteFile(WriteFile(env, "Clustering",
                                            read_Clustering(files[ClustersFile])),
                                  "Quant", Quant(env["EOBS"])),
                        "Exceed_xr", Exceed_xr(env["EOBS"]))
    /\ pc' = "cell25"
    /\ UNCHANGED <<runVars, tasks, results, files, log>>

\* cell 25: extremes_to_clusters(n_clusters=Clusters_used) called by the main
\* process; the result is masked and saved
AN_Extremes ==
    /\ script = "Analysis" /\ pc = "cell25"
    /\ LET out == extremes_to_clusters(Clusters_used)
       IN  IF out.status = "raised"
           THEN /\ pc' = "error"
                /\ log' = [log EXCEPT !.calls = @ \cup {<<"extremes_to_clusters", "main">>}]
                /\ UNCHANGED <<files, env>>
           ELSE /\ pc' = "done"
                /\ env' = WriteFile(env, "ExtremesClusters",
                                    MaskExtremes(out.value, env["NANs_EOBS"]))
                /\ files' = WriteFile(files, ClusteringStatsFile, env'["ExtremesClusters"])
                /\ log' = [log EXCEPT
                             !.calls = @ \cup {<<"extremes_to_clusters", "main">>},
                             !.writes = CountOne(@, ClusteringStatsFile)]
    /\ UNCHANGED <<runVars, tasks, results>>

AN_Cells ==
    \/ AN_AnomPool \/ AN_AnomClose \/ AN_EofPool \/ AN_EofClose \/ AN_Preprocess
    \/ AN_OverlapPool \/ AN_OverlapSave \/ AN_Clustering \/ AN_Extremes

\* no function of this notebook retrieves from MARS: TaskRaise has no task to fail
NextAn == AN_Cells \/ TaskStart \/ TaskReturn \/ NextResult \/ RaiseInMain

SpecAn == InitAn /\ [][NextAn]_vars

---------------------------------------------------------------------------
(* The three notebooks *)

InitAll == InitP1 \/ InitP2 \/ InitAn

NextAll == P1_Cells \/ P2_Cells \/ AN_Cells \/ Workers

SpecAll == InitAll /\ [][NextAll]_vars

---------------------------------------------------------------------------
(* Properties of the ERA5 download (Paper1 script) *)

\* the GRIB dates of a Fieldset, and the dates of a list of 'YYYYMMDD' strings
DatesOf(fs) == [k \in DOMAIN fs |-> fs[k].date]
AsNumbers(ds) == [k \in DOMAIN ds |-> int(ds[k])]

\* position of the GRIB date n in the list nums of GRIB dates
DayIndex(nums, n) == CHOOSE k \in DOMAIN nums : nums[k] = n

\* end of the validity hour of a forecast field, in hours since 00:00 of the first
\* date of nums
ValidHour(nums, f) == 24 * (DayIndex(nums, f.date) - 1) + f.time + f.step

PrecipTasksDone ==
    {i \in DOMAIN tasks : tasks[i].fn = "precip_subset" /\ tasks[i].status = "done"}

AtmTasksDone ==
    {i \in DOMAIN tasks : tasks[i].fn = "atm_subset" /\ tasks[i].status = "done"}

\* C1: the precipitation output holds exactly one daily total for every date of the
\* requested range except the first one and none for another date; the first chunk
\* yields its month without its first day, every later chunk every day of its month
C1_PrecipCoversAllButFirst ==
    /\ \A i \in PrecipTasksDone :
          DatesOf(tasks[i].result) =
             IF i = 1 THEN Tail(AsNumbers(dates_atm_vars[1]))
             ELSE AsNumbers(dates_atm_vars[i])
    /\ PrecipPath \in DOMAIN files =>
          LET out == files[PrecipPath]
              N == Len(dates_generated_all)
          IN  /\ \A k \in 2..N :
                    Cardinality({j \in DOMAIN out :
                                   out[j].date = int(dates_generated_all[k])}) = 1
              /\ \A j \in DOMAIN out :
                    \E k \in 2..N : out[j].date = int(dates_generated_all[k])
              /\ Len(out) = N - 1

C1_Witness ==
    /\ pc = "done" /\ PrecipPath \in DOMAIN files
    /\ Len(dates_atm_vars) = 3
    /\ Len(files[PrecipPath]) >= 29

\* C2: the daily total of index i_day sums the 12 steps of the 18:00 forecast of
\* dates_subset[i_day] and then the 12 steps of the 06:00 forecast of
\* dates_subset[i_day+1], which are the hourly accumulations valid at 01:00..24:00 of
\* dates_subset[i_day+1], and is labelled with that date
C2_DailyTotalWindow ==
    \A i \in PrecipTasksDone :
       LET ds == tasks[i].input
           res == tasks[i].result
           nums == <<>> \o AsNumbers(ds)
       IN  \A n \in DOMAIN res :
              /\ res[n].date = nums[n + 1]
              /\ res[n].of =
                    [k \in 1..24 |->
                       IF k <= 12
                       THEN [param |-> "tp", date |-> nums[n], time |-> 18,
                             step |-> 6 + k, area |-> "Area_precipt_ext"]
                       ELSE [param |-> "tp", date |-> nums[n + 1], time |-> 6,
                             step |-> k - 6, area |-> "Area_precipt_ext"]]
              /\ [k \in 1..24 |-> ValidHour(nums, res[n].of[k])] =
                    [k \in 1..24 |-> 24 * (DayIndex(nums, res[n].date) - 1) + k]

C2_Witness ==
    \E i \in PrecipTasksDone : i >= 2 /\ Len(tasks[i].result) >= 2

\* C3: atm_subset returns one daily mean per date of dates_subset, in that order; the
\* mean of a date is taken over exactly the retrieved hourly fields of that date, and
\* every retrieved field enters exactly one daily mean (the means hold only fields of
\* their own date, together as many fields as were retrieved, and all of them)
C3_OneMeanPerDate ==
    \A i \in AtmTasksDone :
       LET ds == tasks[i].input[4]
           res == tasks[i].result
           retrieved == retrieve_an(tasks[i].input[3], ds)
           used == Concat([d \in DOMAIN res |-> res[d].of])
       IN  /\ Len(res) = Len(ds)
           /\ \A d \in DOMAIN res :
                 /\ res[d].date = int(ds[d])
                 /\ Len(res[d].of) = HoursPerDay
                 /\ \A f \in Range(res[d].of) : f.date = int(ds[d])
           /\ Len(used) = Len(retrieved)
           /\ Cardinality(Range(retrieved)) = Len(retrieved)
           /\ Range(used) = Range(retrieved)

C3_Witness ==
    \E i \in AtmTasksDone : Len(tasks[i].input[4]) >= 2 /\ Len(dates_atm_vars) >= 2

\* C4: dates_atm_vars partitions the ordered date list into year-month chunks: no
\* chunk is empty, a chunk holds one YYYYMM prefix, no two chunks share a prefix,
\* and the chunks concatenated in order are dates_generated_all
C4_ChunksPartitionDates ==
    pc # "cell6" =>
       /\ \A c \in DOMAIN dates_atm_vars :
             /\ dates_atm_vars[c] # <<>>
             /\ \A k \in DOMAIN dates_atm_vars[c] :
                   SubSeq(dates_atm_vars[c][k], 1, 6) = SubSeq(dates_atm_vars[c][1], 1, 6)
       /\ \A c1, c2 \in DOMAIN dates_atm_vars :
             c1 # c2 =>
                SubSeq(dates_atm_vars[c1][1], 1, 6) # SubSeq(dates_atm_vars[c2][1], 1, 6)
       /\ Concat(dates_atm_vars) = dates_generated_all

C4_Witness ==
    /\ pc # "cell6" /\ Len(dates_atm_vars) = 3
    /\ \E c \in DOMAIN dates_atm_vars : Len(dates_atm_vars[c]) >= 2

ExpectedFiles == {AtmPath(data_inputs[v]) : v \in DOMAIN data_inputs} \cup {PrecipPath}

\* what the files hold, and how often they were written
FilesComplete ==
    /\ \A q \in DOMAIN files : q \in ExpectedFiles /\ log.writes[q] = 1
    /\ \A v \in DOMAIN data_inputs :
          AtmPath(data_inputs[v]) \in DOMAIN files =>
             LET out == files[AtmPath(data_inputs[v])]
             IN  /\ DatesOf(out) = AsNumbers(dates_generated_all)
                 /\ \A k \in DOMAIN out :
                       /\ Len(out[k].of) = HoursPerDay
                       /\ \A f \in Range(out[k].of) : f.param = data_inputs[v][3]
    /\ PrecipPath \in DOMAIN files =>
          DatesOf(files[PrecipPath]) = Tail(AsNumbers(dates_generated_all))
    /\ pc = "done" => DOMAIN files = ExpectedFiles /\ Cardinality(DOMAIN files) = 7

\* a step that changes the file system is taken with every task of the pool done and
\* every result consumed, and leaves the files that exist as they are
WriteAfterAllChunks ==
    files' # files =>
       /\ tasks # <<>> /\ AllConsumed
       /\ \A i \in DOMAIN tasks : tasks[i].status = "done"
       /\ \A q \in DOMAIN files : q \in DOMAIN files' /\ files'[q] = files[q]

\* C10: in one run of the Paper1 script every output file is written exactly once,
\* after all the chunks of its content have been retrieved and concatenated, and no
\* file is changed after it was written
C10_FilesWrittenOnce == []FilesComplete /\ [][WriteAfterAllChunks]_vars

C10_Witness == pc = "done" /\ Cardinality(DOMAIN files) = 7 /\ Len(dates_atm_vars) = 3


---------------------------------------------------------------------------
(* Properties of the pools of the Paper2 script *)

DownloadTasks == {i \in DOMAIN tasks : tasks[i].fn \in DownloadFns}

\* the tasks that take a step of their own in this step of the run
Stepping == {i \in DOMAIN tasks : i \in DOMAIN tasks' /\ tasks'[i] # tasks[i]}

\* a step of a worker process: the pool is open before and after, a task moves on
WorkerStep == tasks # <<>> /\ Len(tasks') = Len(tasks) /\ Stepping # {}

\* the files of the tasks of one map are pairwise distinct
PathsDistinct ==
    \A i, j \in DownloadTasks : i # j => TaskFile(tasks[i]) # TaskFile(tasks[j])

\* a worker step is the step of one task; a download task starts the retrieval
\* exactly when its own file is missing, changes at most its own file, and does so
\* only when it ends; a task of another function changes no file
WorkerTouchesOwnFile ==
    WorkerStep =>
       /\ Cardinality(Stepping) = 1
       /\ \A i \in Stepping :
             IF tasks[i].fn \in DownloadFns
             THEN /\ tasks[i].status = "queued" =>
                        /\ files' = files
                        /\ (tasks'[i].status = "running")
                              <=> (TaskFile(tasks[i]) \notin DOMAIN files)
                  /\ \A q \in DOMAIN files' \cup DOMAIN files :
                        q # TaskFile(tasks[i]) =>
                           q \in DOMAIN files /\ q \in DOMAIN files' /\ files'[q] = files[q]
                  /\ files' # files =>
                        tasks[i].status = "running" /\ tasks'[i].status = "done"
             ELSE files' = files

\* C8: the tasks of one parallel map share no file: the files of the download_data /
\* download_precip tasks of a map are pairwise distinct, each of these tasks checks
\* and writes only its own file, and the ERA5 chunk workers write no file, so no two
\* workers ever check or write the same file
C8_TasksShareNoFile == []PathsDistinct /\ [][WorkerTouchesOwnFile]_vars

C8_Witness ==
    /\ pc = "data_imap"
    /\ \E i, j \in Running :
          /\ i # j
          /\ tasks[i].fn = "download_data" /\ tasks[j].fn = "download_data"
          /\ tasks[i].input[3] = tasks[j].input[3]
    /\ \E q \in DOMAIN files : q \in DOMAIN log.writes

---------------------------------------------------------------------------
(* Properties of the functions of the analysis notebook *)

\* the values of a cell that are not missing, as numbers
ValidOf(ds, c) == {ds.values[d][c].v : d \in {e \in DOMAIN ds.values : ~ds.values[e][c].nan}}

AllMissing(ds, c) == \A d \in DOMAIN ds.values : ds.values[d][c].nan

\* the value of cell c on day d is there and strictly over the cell's own q-th
\* percentile (in hundredths)
OverOwnThreshold(ds, d, c, q) ==
    LET thres == quantile(CellSeries(ds, c), q)
    IN  /\ ~ds.values[d][c].nan
        /\ ~thres.nan
        /\ 100 * ds.values[d][c].v > thres.v

\* the threshold of a cell lies within its values, and is missing only when all
\* the values are
ThresholdWithinValues(ds, c, q) ==
    LET thres == quantile(CellSeries(ds, c), q)
    IN  /\ thres.nan <=> AllMissing(ds, c)
        /\ ~thres.nan =>
              /\ \E x \in ValidOf(ds, c) : 100 * x <= thres.v
              /\ \E x \in ValidOf(ds, c) : thres.v <= 100 * x

\* C5: a day is an event of a cell for a percentile exactly when the value of the cell
\* on that day is strictly over the cell's own percentile threshold: a value equal to
\* the threshold or missing is no event, a cell that is missing throughout has an
\* empty list in dates_extreme and only zero flags in Exceed_xr
C5_EventIffOverThreshold ==
    (script = "EPE" /\ pc = "returned") =>
       LET ds == call.dataset
           days == DOMAIN ds.values
       IN  IF ret.fn = "dates_extreme"
           THEN /\ DOMAIN ret.value = GridCells
                /\ \A c \in GridCells :
                      /\ ThresholdWithinValues(ds, c, call.quantile)
                      /\ \A d \in days :
                            (ds.time[d] \in Range(ret.value[c]))
                               <=> OverOwnThreshold(ds, d, c, call.quantile)
                      /\ Cardinality(Range(ret.value[c])) = Len(ret.value[c])
                      /\ Range(ret.value[c]) \subseteq Range(ds.time)
                      /\ AllMissing(ds, c) => ret.value[c] = <<>>
           ELSE \A p \in DOMAIN P_used : \A d \in days : \A c \in GridCells :
                   /\ ret.value[p][d][c] =
                         IF OverOwnThreshold(ds, d, c, P_used[p]) THEN 1 ELSE 0
                   /\ AllMissing(ds, c) => ret.value[p][d][c] = 0

C5_Witness ==
    /\ script = "EPE" /\ pc = "returned" /\ ret.fn = "dates_extreme"
    /\ Len(call.dataset.values) = MaxDays
    /\ AllMissing(call.dataset, 2) /\ ret.value[2] = <<>>
    /\ \E d \in DOMAIN call.dataset.values :
          /\ ~call.dataset.values[d][1].nan
          /\ 100 * call.dataset.values[d][1].v
                = quantile(CellSeries(call.dataset, 1), call.quantile).v
          /\ call.dataset.time[d] \notin Range(ret.value[1])
    /\ \E d \in DOMAIN call.dataset.values : call.dataset.values[d][1] = Num(0)

HasNaN(data) == \E t \in DOMAIN data : data[t].nan

\* C6 as claimed: transition_matrix returns a matrix only for a sequence without a
\* missing value, and fails for every sequence that holds one
C6_FailsOnAnyNaN ==
    (script = "transition_matrix" /\ pc = "returned") => ~HasNaN(call.data)

\* a matrix is returned for a sequence that holds a NaN, with the NaN as a state
C6_Witness ==
    /\ script = "transition_matrix" /\ pc = "returned"
    /\ HasNaN(call.data)
    /\ \E k \in DOMAIN ret.states : ret.states[k].nan
    /\ \E t \in DOMAIN call.data : ~call.data[t].nan

\* the positions t (from 1) that the loop pairs with t + lead
Counted(data, lead) == {t \in DOMAIN data : t + lead \in DOMAIN data}

FromTo(data, lead, x, y) == {t \in Counted(data, lead) : data[t] = x /\ data[t + lead] = y}

From(data, lead, x) == {t \in Counted(data, lead) : data[t] = x}

\* the states are the distinct values in ascending order
SortedDistinct(states, data) ==
    /\ Range(states) = Range(data)
    /\ \A k \in DOMAIN states : \A l \in DOMAIN states : k < l => states[k].v < states[l].v

\* the total of the counts of the loop
RECURSIVE Total(_)
Total(M) == IF M = <<>> THEN 0 ELSE sum(M[1]) + Total(Tail(M))

\* C7 as claimed: every entry is the quotient of the two counts, and len(data) - lead
\* transitions are counted
C7_EveryEntryQuotient ==
    (script = "transition_matrix" /\ pc = "returned" /\ ~HasNaN(call.data)) =>
       /\ SortedDistinct(ret.states, call.data)
       /\ \A i \in DOMAIN ret.states : \A j \in DOMAIN ret.states :
             LET a == Cardinality(FromTo(call.data, call.lead, ret.states[i], ret.states[j]))
                 b == Cardinality(From(call.data, call.lead, ret.states[i]))
             IN  b # 0 /\ ret.M[i][j].num * b = a * ret.M[i][j].den
       /\ Total(ret.counts) = Len(call.data) - call.lead

\* C7: for a sequence without missing values the matrix is indexed by the sorted
\* distinct states; M[i][j] is (transitions counted from i to j) / (transitions
\* counted from i) when a transition from i is counted, and 0 when none is; the
\* transitions counted are len(data) - lead, and none when lead >= len(data)
C7_QuotientOrZeroRow ==
    (script = "transition_matrix" /\ pc = "returned" /\ ~HasNaN(call.data)) =>
       /\ SortedDistinct(ret.states, call.data)
       /\ DOMAIN ret.M = DOMAIN ret.states
       /\ \A i \in DOMAIN ret.states :
             /\ DOMAIN ret.M[i] = DOMAIN ret.states
             /\ \A j \in DOMAIN ret.states :
                   LET a == Cardinality(FromTo(call.data, call.lead,
                                               ret.states[i], ret.states[j]))
                       b == Cardinality(From(call.data, call.lead, ret.states[i]))
                   IN  /\ ret.M[i][j].den > 0
                       /\ IF b > 0 THEN ret.M[i][j].num * b = a * ret.M[i][j].den
                          ELSE ret.M[i][j].num = 0
       /\ Total(ret.counts) =
             IF Len(call.data) > call.lead THEN Len(call.data) - call.lead ELSE 0

C7_Witness ==
    /\ script = "transition_matrix" /\ pc = "returned" /\ ~HasNaN(call.data)
    /\ Len(ret.states) = 3 /\ call.lead = 2
    /\ \E i \in DOMAIN ret.M : sum(ret.counts[i]) = 0
    /\ \E i \in DOMAIN ret.M : \E j \in DOMAIN ret.M :
          ret.M[i][j].num = 1 /\ ret.M[i][j].den = 2

---------------------------------------------------------------------------
(* Properties of the three notebooks together *)

\* the functions that are handed to a pool, and those the main process calls itself
PoolFns ==
    {"atm_subset", "precip_subset", "download_data", "download_precip",
     "download_precip_ERA5", "download_ERA5_fullhourly", "anomalies", "eof_analysis",
     "calculate_overlap"}

MainFns == {"download_ERA5_0UTC", "extremes_to_clusters"}

ViaPool(fns) == {<<f, "pool">> : f \in fns}

\* the inputs of the map the main process is waiting for
MapInputs ==
    CASE pc = "atm_imap" -> Inputs(data_inputs[var_i], dates_atm_vars)
      [] pc = "hourly_imap" -> Inputs(ERA5_vars_used[var_i], dates_atm_vars)
      [] pc \in {"precip_imap", "era5precip_imap"} -> dates_precipit
      [] pc = "data_imap" -> product3(<<SLP, Z500>>, <<cf, pf>>, initialization_dates)
      [] pc = "rfprecip_imap" -> product2(<<cf, pf>>, initialization_dates)
      [] pc \in {"anom_imap", "eof_imap"} -> variables_used
      [] pc = "overlap_imap" -> Combs
      [] OTHER -> <<>>

\* how every function has been called so far, and what a complete run has called
CalledAsWritten ==
    /\ \A c \in log.calls :
          \/ c[1] \in PoolFns /\ c[2] = "pool"
          \/ c[1] \in MainFns /\ c[2] = "main"
    /\ \A i \in DOMAIN tasks : tasks[i].fn \in PoolFns /\ tasks[i].fn = tasks[1].fn
    /\ InImap => [i \in DOMAIN tasks |-> tasks[i].input] = MapInputs
    /\ (script = "Paper1" /\ pc = "done") =>
          log.calls = ViaPool({"atm_subset", "precip_subset"})
    /\ (script = "Paper2" /\ pc = "done") =>
          log.calls = ViaPool({"download_data", "download_precip",
                               "download_ERA5_fullhourly", "download_precip_ERA5"})
                         \cup {<<"download_ERA5_0UTC", "main">>}
    /\ (script = "Analysis" /\ pc = "done") =>
          log.calls = ViaPool({"anomalies", "eof_analysis", "calculate_overlap"})
                         \cup {<<"extremes_to_clusters", "main">>}

\* a worker step is the step of one task on its own input, and gives nothing to
\* another task, to the list of the results or to the names of the main process
WorkerStepAlone ==
    WorkerStep =>
       /\ Cardinality(Stepping) = 1
       /\ results' = results /\ env' = env
       /\ \A i \in Stepping :
             /\ tasks'[i].fn = tasks[i].fn /\ tasks'[i].input = tasks[i].input
             /\ (tasks'[i].status = "done" /\ tasks[i].fn \notin DownloadFns) =>
                   tasks'[i].result = Apply(tasks[i].fn, tasks[i].input).value

\* C9 as claimed: every processing function is called through a pool
C9_AllViaPool == \A c \in log.calls : c[2] = "pool"

\* C9: atm_subset, precip_subset, download_data, both download_precip,
\* download_ERA5_fullhourly, anomalies, eof_analysis and calculate_overlap are each
\* applied to all their inputs through the map of a process pool, the workers not
\* communicating; download_ERA5_0UTC and extremes_to_clusters are called by the main
\* process itself, the first in a loop over the chunks, the second once
C9_PoolExceptTwo == []CalledAsWritten /\ [][WorkerStepAlone]_vars

C9_Witness ==
    /\ script = "Paper2" /\ pc = "done"
    /\ <<"download_ERA5_0UTC", "main">> \in log.calls
    /\ <<"download_ERA5_fullhourly", "pool">> \in log.calls
    /\ Len(dates_atm_vars) = 2
---------------------------------------------------------------------------
(* Failures of the retrievals *)

\* the step of TaskReturn or of TaskRaise, told by what it does to the task
TaskEnds == \E i \in Running : tasks'[i].status \in {"done", "failed"}

\* a call of a function ends, by its return or by its exception: weak fairness of
\* TaskReturn \/ TaskRaise, whose step is possible exactly when a task is running
CallsEnd == []<>(Running = {}) \/ []<><<TaskEnds>>_vars

\* the two download scripts, the second with nothing downloaded yet or with one
\* reforecast file there; the workers of a pool take the queued tasks, a call of a function ends, and
\* list(...) takes each result as soon as it is there
FairDownloads ==
    /\ \/ InitP1
       \/ /\ InitP2
          /\ DOMAIN files \subseteq
                {DataFile(<<SLP, cf, KeptDates(date_range(start_date, InitSpan))[1]>>)}
    /\ [][P1_Cells \/ P2_Cells \/ Workers]_vars
    /\ WF_vars(TaskStart)
    /\ CallsEnd
    /\ WF_vars(NextResult)
    /\ WF_vars(RaiseInMain)

Failed == {i \in DOMAIN tasks : tasks[i].status = "failed"}

\* the file the cell that is running writes for the variable it is processing:
\* the file of the failed download task, or the file written after the chunks
OutputsOfFailed ==
    IF tasks = <<>>
    THEN IF script = "Paper2" /\ pc = "error"
         THEN {UtcPath(ERA5_vars_used[var_i])}
         ELSE {}
    ELSE CASE tasks[1].fn = "atm_subset" ->
                 IF Failed = {} THEN {} ELSE {AtmPath(data_inputs[var_i])}
           [] tasks[1].fn = "precip_subset" ->
                 IF Failed = {} THEN {} ELSE {PrecipPath}
           [] tasks[1].fn = "download_ERA5_fullhourly" ->
                 IF Failed = {} THEN {} ELSE {HourlyPath(ERA5_vars_used[var_i])}
           [] tasks[1].fn = "download_precip_ERA5" ->
                 IF Failed = {} THEN {} ELSE {ERA5PrecipPath}
           [] tasks[1].fn \in DownloadFns -> {TaskFile(tasks[i]) : i \in Failed}
           [] OTHER -> {}

\* each task has been called once, or not yet; every task of a completed list once
CalledOnce ==
    /\ \A i \in DOMAIN tasks :
          tasks[i].runs = IF tasks[i].status = "queued" THEN 0 ELSE 1
    /\ (InImap /\ AllConsumed) =>
          \A i \in DOMAIN tasks : tasks[i].runs = 1 /\ tasks[i].status = "done"

\* the file of a failed retrieval has not been written in this run
FailedNotWritten == \A q \in OutputsOfFailed : q \notin DOMAIN log.writes

\* a failed task stays failed, and is not called again
FailureKept ==
    \A i \in Failed :
       /\ i \in DOMAIN tasks'
       /\ tasks'[i] = tasks[i]

\* after the exception the main process takes no step
RunStopped ==
    pc = "error" =>
       /\ pc' = "error"
       /\ UNCHANGED <<script, dateVars, var_i, results, AtmVar, Precip, env, call, ret>>
       /\ DOMAIN tasks' = DOMAIN tasks

\* C11: there is no retry: a chunk handed to a pool is processed by one call of the
\* worker function, every queued chunk gets its call, a failed retrieval is not
\* caught or called again, its exception reaches the main process, which then takes
\* no further step, and the output file of what was being processed is not written
C11_NoRetry ==
    /\ []CalledOnce
    /\ []FailedNotWritten
    /\ [][FailureKept /\ RunStopped]_vars
    /\ (Failed # {}) ~> (pc = "error")
    /\ (Queued # {}) ~> (Queued = {})

C11_Witness ==
    /\ pc = "error" /\ script = "Paper1"
    /\ \E i \in Failed : tasks[i].runs = 1 /\ i > 1 /\ tasks[1].status = "done"
    /\ var_i = 2
    /\ AtmPath(data_inputs[1]) \in DOMAIN log.writes
    /\ log.failures = 1

---------------------------------------------------------------------------
(* Order of the downloads in the Paper1 script *)

AtmTasks == {i \in DOMAIN tasks : tasks[i].fn = "atm_subset"}

PrecipTasks == {i \in DOMAIN tasks : tasks[i].fn = "precip_subset"}

\* pool_precip has been created
PrecipPoolCreated == PrecipTasks # {} \/ pc \in {"precip_imap", "done"}

\* every variable of data_inputs has its file, written once, and its key in AtmVar
AtmAllSaved ==
    /\ var_i = Len(data_inputs) + 1
    /\ \A k \in DOMAIN data_inputs :
          /\ AtmPath(data_inputs[k]) \in DOMAIN files
          /\ AtmPath(data_inputs[k]) \in DOMAIN log.writes
          /\ log.writes[AtmPath(data_inputs[k])] = 1
          /\ LastPart(data_inputs[k][4]) \in DOMAIN AtmVar

\* the step that leaves a pool: every task of it has returned and its result is taken
PoolLeftComplete ==
    (tasks # <<>> /\ (tasks' = <<>> \/ tasks'[1].input # tasks[1].input)) =>
       /\ \A i \in DOMAIN tasks : tasks[i].status = "done"
       /\ Len(results) = Len(tasks)

\* the step that creates pool_precip starts from no task at all
PrecipPoolAfterAtm ==
    (~PrecipPoolCreated /\ PrecipPoolCreated') =>
       /\ tasks = <<>> /\ AtmAllSaved
       /\ Running' = {}

\* C12: in the Paper1 script the precipitation pool is created only after every
\* variable of data_inputs had all its chunk tasks returned, its pool closed and its
\* file written, and no task of an atmospheric-variable pool is in flight together
\* with a task of the precipitation pool
C12_AtmBeforePrecip ==
    /\ [](script = "Paper1" => (PrecipPoolCreated => AtmAllSaved /\ AtmTasks = {}))
    /\ [](AtmTasks = {} \/ PrecipTasks = {})
    /\ [][PoolLeftComplete /\ PrecipPoolAfterAtm]_vars

C12_Witness ==
    /\ script = "Paper1" /\ pc = "precip_imap"
    /\ \E i \in Running : tasks[i].fn = "precip_subset"
    /\ Cardinality(Running) = 2
    /\ AtmAllSaved

---------------------------------------------------------------------------
(* The reforecast downloads skip what is already there *)

\* the files of the reforecast tasks of the run
ReforecastPaths == ReforecastFiles(KeptDates(date_range(start_date, InitSpan)))

\* the file was there before the run
LeftByEarlierRun(q) == q \in DOMAIN files /\ files[q] = OldFile

\* a file that was there is not retrieved for and not written
ExistingUntouched ==
    \A q \in ReforecastPaths :
       LeftByEarlierRun(q) => q \notin DOMAIN log.retrievals /\ q \notin DOMAIN log.writes

\* a file that was missing is retrieved for once, and written once, by its own task
MissingDownloadedOnce ==
    /\ \A q \in DOMAIN log.retrievals : q \in ReforecastPaths /\ log.retrievals[q] = 1
    /\ \A q \in DOMAIN log.writes \cap ReforecastPaths :
          /\ log.writes[q] = 1
          /\ q \in DOMAIN log.retrievals
          /\ q \in DOMAIN files
    /\ \A i \in DownloadTasks :
          LET q == TaskFile(tasks[i])
          IN  /\ tasks[i].status = "queued" =>
                    q \notin DOMAIN log.retrievals /\ q \notin DOMAIN log.writes
              /\ tasks[i].status \in {"running", "failed"} =>
                    q \in DOMAIN log.retrievals /\ q \notin DOMAIN files
              /\ tasks[i].status = "done" =>
                    \/ LeftByEarlierRun(q)
                    \/ /\ q \in DOMAIN files /\ files[q] = Downloaded(tasks[i])
                       /\ q \in DOMAIN log.retrievals /\ q \in DOMAIN log.writes

\* with every file there, the two download cells retrieve nothing and write nothing
RerunDoesNothing ==
    (\A q \in ReforecastPaths : LeftByEarlierRun(q)) =>
       /\ log.retrievals = <<>>
       /\ \A q \in ReforecastPaths : q \notin DOMAIN log.writes

\* a file that is there stays as it is
FilesKept ==
    \A q \in ReforecastPaths :
       q \in DOMAIN files => q \in DOMAIN files' /\ files'[q] = files[q]

\* C13: download_data and the reforecast download_precip download only what is not
\* there: with the file of the task there the call retrieves nothing, writes nothing
\* and leaves the file as it is; with the file missing the call retrieves once and
\* writes that one file; a run that finds every file there retrieves nothing and
\* changes no file
C13_DownloadOnlyMissing ==
    /\ [](ExistingUntouched /\ MissingDownloadedOnce /\ RerunDoesNothing)
    /\ [][FilesKept]_vars

C13_Witness ==
    /\ pc = "cell11"
    /\ \E q \in ReforecastPaths : LeftByEarlierRun(q)
    /\ \E q \in ReforecastPaths : q \in DOMAIN log.writes
    /\ Cardinality(ReforecastPaths) >= 6

---------------------------------------------------------------------------
(* The number of EOFs kept *)

\* the share of the total variance the first k EOFs explain, in percent
Explained(fractions, k) == sum(SubSeq(fractions, 1, k))

\* C14: eof_analysis keeps N_eofs = the smallest k >= 1 whose first k EOFs explain at
\* least Var_ex % of the total variance: the kept EOFs explain at least Var_ex %,
\* the first N_eofs - 1 explain strictly less, and the returned EOFS and VARS both
\* have the length N_eofs
C14_SmallestNumberOfEofs ==
    (script = "eof_analysis" /\ pc = "returned") =>
       LET fractions == call.spectrum
           N == N_eofs(fractions)
       IN  /\ N >= 1 /\ N <= Len(fractions)
           /\ Explained(fractions, N) >= Var_ex
           /\ Explained(fractions, N - 1) < Var_ex
           /\ \A k \in 1..Len(fractions) : Explained(fractions, k) >= Var_ex => N <= k
           /\ Len(ret.value.EOFS) = N
           /\ Len(ret.value.VARS) = N
           /\ ret.value.VARS = SubSeq(fractions, 1, N)
           /\ \A k \in 1..N : ret.value.EOFS[k].eof = k

C14_Witness ==
    /\ script = "eof_analysis" /\ pc = "returned"
    /\ Len(call.spectrum) = 4
    /\ Len(ret.value.VARS) = 3
    /\ Explained(call.spectrum, 3) = Var_ex

---------------------------------------------------------------------------
(* The window of days around a list of dates *)

\* every day of the years the drawn dates and their windows fall in
CalendarDays ==
    {[y |-> y, m |-> m, d |-> d] :
        y \in 1978..1981, m \in 1..12, d \in 1..31} \cap
    {t \in [y : 1978..1981, m : 1..12, d : 1..31] : t.d <= DaysInMonth(t.y, t.m)}

\* the dates the call was given, a single string counted as a list of one
GivenDates ==
    IF call.actual_dates \in WindowDates THEN {call.actual_dates}
    ELSE Range(call.actual_dates)

\* the day number of every calendar day
OrdinalOf == [t \in CalendarDays |-> toordinal(t)]

\* the calendar days at most days_offset days away from one of the day numbers
DaysAround(ordinals, days_offset) ==
    {t \in CalendarDays :
        \E n \in ordinals : /\ OrdinalOf[t] - n <= days_offset
                             /\ n - OrdinalOf[t] <= days_offset}

\* C15: days_extend returns exactly the set of the dates d, as YYYYMMDD strings, that
\* are at most days_offset days away from some date of actual_dates; the set holds
\* every date of actual_dates, and a single date passed as a string is treated as a
\* list of that one date
C15_WindowAroundDates ==
    (script = "days_extend" /\ pc = "returned") =>
       /\ LET ordinals == {toordinal(to_datetime(a)) : a \in GivenDates}
          IN  ret.value = {strftime(t) : t \in DaysAround(ordinals, call.days_offset)}
       /\ GivenDates \subseteq ret.value
       /\ call.actual_dates \in WindowDates =>
             ret.value = days_extend(<<call.actual_dates>>, call.days_offset)

C15_Witness ==
    /\ script = "days_extend" /\ pc = "returned"
    /\ call.days_offset = 2
    /\ Len(call.actual_dates) = 2
    /\ call.actual_dates[1] = DateList([y |-> 1980, m |-> 3, d |-> 1], 1)[1]
    /\ call.actual_dates[2] = DateList([y |-> 1980, m |-> 2, d |-> 28], 1)[1]
    /\ Cardinality(ret.value) = 7

---------------------------------------------------------------------------
(* The overlap of the days of extremes of ERA5 and of EOBS *)

\* the days of extremes of a cell of ERA5 and of EOBS, for the percentiles of the call
ERA5Days(c) == Range(dates_extreme(env["ERA5"], call.input_data[1])[c])

EOBSDays(c) == Range(dates_extreme(env["EOBS"], call.input_data[2])[c])

\* the days at most offset days away from a day of extremes of EOBS of the cell
ExtendedEOBSDays(c) ==
    LET ordinals == {toordinal(to_datetime(a)) : a \in EOBSDays(c)}
    IN  {strftime(t) : t \in DaysAround(ordinals, call.input_data[3])}

\* the value of the cell is 100 * |ERA5 days in the extended EOBS days| / |ERA5 days|,
\* and NaN exactly when the cell has no day of extremes of EOBS
OverlapOfCell(c) ==
    LET x == ret.value.values[c]
    IN  /\ x.nan <=> EOBSDays(c) = {}
        /\ ~x.nan =>
              /\ ERA5Days(c) # {}
              /\ x.den = Cardinality(ERA5Days(c))
              /\ x.num = 100 * Cardinality(ERA5Days(c) \cap ExtendedEOBSDays(c))

\* C16: for each grid cell calculate_overlap returns
\* 100 * |ERA5 days that are in the extended EOBS days| / |ERA5 days|, the window of
\* +-offset days applied to the EOBS days only, and NaN exactly when the cell has no
\* EOBS day
C16_OverlapPerCell ==
    (script = "calculate_overlap" /\ pc # "call") =>
       /\ pc = "returned"
       /\ \A c \in GridCells : OverlapOfCell(c)

\* a call that returns gives every cell the claimed value, and a call raises exactly
\* when a cell has days of extremes of EOBS and none of ERA5
OverlapWhereReturned ==
    (script = "calculate_overlap" /\ pc # "call") =>
       /\ pc = "returned" => \A c \in GridCells : OverlapOfCell(c)
       /\ pc = "raised" <=> \E c \in GridCells : EOBSDays(c) # {} /\ ERA5Days(c) = {}

\* the call raised for a cell with a day of extremes of EOBS and none of ERA5
C16_Witness ==
    /\ script = "calculate_overlap" /\ pc = "raised"
    /\ ret.error = "ZeroDivisionError"
    /\ call.input_data = <<P_used[Len(P_used)], P_used[Len(P_used)] - 2, 1>>
    /\ call.ERA5 = [d \in 1..MaxDays |-> Num(0)]
    /\ call.EOBS = [d \in 1..MaxDays |-> Num(IF d = MaxDays THEN 1 ELSE 0)]
    /\ ERA5Days(1) = {} /\ EOBSDays(1) # {}

\* a cell with half of its ERA5 days in the window of its EOBS days
HalfOverlap ==
    /\ script = "calculate_overlap" /\ pc = "returned"
    /\ \E c \in GridCells :
          /\ ~ret.value.values[c].nan
          /\ ret.value.values[c].den = 2
          /\ ret.value.values[c].num = 100

====
